---- MODULE Spec2Model ----
(***************************************************************************)
(* Install ledger, recorder, step executor and reverse replayer of alloy.  *)
(*                                                                         *)
(* The target tree is a small POSIX-like filesystem: paths are sequences   *)
(* of names, the root <<>> is always a directory, and every object has a   *)
(* directory as its parent.  Symlink targets are drawn from TargetPaths,   *)
(* which never hold a symlink and have no path below them, so a link       *)
(* resolves in one hop.  System calls fail only for structural reasons (ENOENT,        *)
(* ENOTDIR, EEXIST, EISDIR, ENOTEMPTY); spurious I/O faults are not        *)
(* modelled.  Timestamps, sizes and ownership are not modelled.            *)
(***************************************************************************)
EXTENDS Integers, Sequences, FiniteSets, TLC

\* ------------------------------------------------------------------ bounds
MaxSteps == 2      \* install steps / client operations per ledger
MaxExt == 1        \* external mutations of the target tree per behaviour
MaxInstalls == 1   \* ledgers created per package and behaviour
MaxReplays == 1    \* ReverseReplay calls by remove or a client per behaviour
NumProcs == 3      \* Install processes running at the same time

\* ------------------------------------------------------- program constants
Mode0644 == 420
Mode0755 == 493
CurrentVersion == 1

\* ------------------------------------------------------------------- paths
Root == <<>>
PA == <<"a">>
PAB == <<"a", "b">>
PF == <<"a", "b", "f">>
PE == <<"e">>
PL == <<"l">>
PX == <<"x">>
PH == <<"h">>
Paths == {PA, PAB, PF, PE, PL, PX, PH}
TargetPaths == {PE, PX}

\* filepath.Dir
Dir(p) == IF Len(p) = 0 THEN p ELSE SubSeq(p, 1, Len(p) - 1)

Contents == {1, 2, 3}
Modes == {384, 420, 493}
Pkgs == {"p"}
\* every package name the ledger directory and the backup store may hold
AllPkgs == {"p", "q"}

\* ------------------------------------------------------------- filesystem
None == [kind |-> "none", content |-> 0, mode |-> 0, target |-> <<>>, peers |-> {}]
File(c, m) == [kind |-> "file", content |-> c, mode |-> m, target |-> <<>>, peers |-> {}]
DirObj(m) == [kind |-> "dir", content |-> 0, mode |-> m, target |-> <<>>, peers |-> {}]
Link(t) == [kind |-> "link", content |-> 0, mode |-> 511, target |-> t, peers |-> {}]
Errno(e) == [kind |-> e, content |-> 0, mode |-> 0, target |-> <<>>, peers |-> {}]

IsErr(o) == o.kind \in {"ENOENT", "ENOTDIR"}
\* os.IsNotExist
IsNotExist(o) == o.kind = "ENOENT"

EmptyTree == [p \in Paths |-> None]

Children(tree, d) == {q \in Paths : Dir(q) = d /\ tree[q].kind # "none"}

RECURSIVE Lstat(_, _)
\* os.Lstat: the object at p itself; every proper prefix of p must resolve
\* to a directory.
Lstat(tree, p) ==
    IF p = Root THEN DirObj(Mode0755)
    ELSE LET follow(d) == IF d.kind = "link" THEN Lstat(tree, d.target) ELSE d
             at(par) == IF IsErr(par) THEN par
                        ELSE IF par.kind # "dir" THEN Errno("ENOTDIR")
                        ELSE IF tree[p].kind = "none" THEN Errno("ENOENT")
                        ELSE tree[p]
         IN  at(follow(Lstat(tree, Dir(p))))

\* os.Stat: follows a symlink in the last component.
Stat(tree, p) ==
    LET follow(l) == IF l.kind = "link" THEN Lstat(tree, l.target) ELSE l
    IN  follow(Lstat(tree, p))

\* the directory that would hold p exists
ParentOK(tree, p) == Stat(tree, Dir(p)).kind = "dir"

\* the path a call that follows symlinks operates on
RealPath(tree, p) ==
    LET pick(l) == IF l.kind = "link" THEN l.target ELSE p
    IN  pick(Lstat(tree, p))

\* write the bytes / mode of the inode behind p (all hard links see it)
SetInode(tree, p, c, m) ==
    [q \in Paths |-> IF q = p \/ q \in tree[p].peers
                     THEN [tree[q] EXCEPT !.content = c, !.mode = m]
                     ELSE tree[q]]

Detach(tree, p) ==
    [q \in Paths |-> IF q = p THEN None
                     ELSE [tree[q] EXCEPT !.peers = @ \ {p}]]

\* os.Remove: unlink, or rmdir of an empty directory
OsRemove(tree, p) ==
    LET rm(l) == IF IsErr(l) THEN [fs |-> tree, err |-> l.kind]
                 ELSE IF l.kind = "dir" /\ Children(tree, p) # {}
                      THEN [fs |-> tree, err |-> "ENOTEMPTY"]
                 ELSE [fs |-> Detach(tree, p), err |-> "nil"]
    IN  rm(Lstat(tree, p))

\* os.Mkdir
OsMkdir(tree, p, m) ==
    LET mk(l) == IF l.kind = "ENOENT" /\ ParentOK(tree, p)
                 THEN [fs |-> [tree EXCEPT ![p] = DirObj(m)], err |-> "nil"]
                 ELSE IF IsErr(l) THEN [fs |-> tree, err |-> l.kind]
                 ELSE [fs |-> tree, err |-> "EEXIST"]
    IN  mk(Lstat(tree, p))

RECURSIVE OsMkdirAll(_, _, _)
\* os.MkdirAll
OsMkdirAll(tree, p, m) ==
    LET made(up, mk) == IF mk.err = "nil" THEN mk
                        ELSE IF Lstat(up.fs, p).kind = "dir"
                             THEN [fs |-> up.fs, err |-> "nil"]
                             ELSE mk
        below(up) == IF up.err # "nil" THEN up
                     ELSE made(up, OsMkdir(up.fs, p, m))
        all(s) == IF ~IsErr(s)
                  THEN IF s.kind = "dir" THEN [fs |-> tree, err |-> "nil"]
                       ELSE [fs |-> tree, err |-> "ENOTDIR"]
                  ELSE IF p = Root THEN [fs |-> tree, err |-> "nil"]
                  ELSE below(OsMkdirAll(tree, Dir(p), m))
    IN  all(Stat(tree, p))

\* os.Symlink
OsSymlink(tree, t, p) ==
    LET sl(l) == IF l.kind = "ENOENT" /\ ParentOK(tree, p)
                 THEN [fs |-> [tree EXCEPT ![p] = Link(t)], err |-> "nil"]
                 ELSE IF IsErr(l) THEN [fs |-> tree, err |-> l.kind]
                 ELSE [fs |-> tree, err |-> "EEXIST"]
    IN  sl(Lstat(tree, p))

\* os.Link (hard link; does not follow a symlink at old)
OsLink(tree, old, new) ==
    LET linked(grp) ==
            [fs |-> [q \in Paths |->
                       IF q = new THEN [tree[old] EXCEPT !.peers = grp]
                       ELSE IF q \in grp
                            THEN [tree[q] EXCEPT !.peers = @ \cup {new}]
                            ELSE tree[q]],
             err |-> "nil"]
        ln(o, n) ==
            IF IsErr(o) THEN [fs |-> tree, err |-> o.kind]
            ELSE IF o.kind # "file" THEN [fs |-> tree, err |-> "EPERM"]
            ELSE IF ~(n.kind = "ENOENT" /\ ParentOK(tree, new))
                 THEN [fs |-> tree, err |-> IF IsErr(n) THEN n.kind ELSE "EEXIST"]
            ELSE linked({old} \cup tree[old].peers)
    IN  ln(Lstat(tree, old), Lstat(tree, new))

\* os.OpenFile(p, O_CREATE|O_WRONLY|O_TRUNC, m) followed by writing c:
\* follows a symlink, rewrites an existing inode in place.
OsWriteFile(tree, p, c, m) ==
    LET wr(rp, l) ==
            IF l.kind = "ENOENT" /\ ParentOK(tree, rp)
            THEN [fs |-> [tree EXCEPT ![rp] = File(c, m)], err |-> "nil"]
            ELSE IF IsErr(l) THEN [fs |-> tree, err |-> l.kind]
            ELSE IF l.kind = "dir" THEN [fs |-> tree, err |-> "EISDIR"]
            ELSE [fs |-> SetInode(tree, rp, c, l.mode), err |-> "nil"]
        at(rp) == wr(rp, Lstat(tree, rp))
    IN  at(RealPath(tree, p))

\* os.Chmod: follows a symlink
OsChmod(tree, p, m) ==
    LET ch(rp, l) ==
            IF IsErr(l) THEN [fs |-> tree, err |-> l.kind]
            ELSE IF l.kind = "dir"
                 THEN [fs |-> [tree EXCEPT ![rp].mode = m], err |-> "nil"]
            ELSE [fs |-> SetInode(tree, rp, l.content, m), err |-> "nil"]
        at(rp) == ch(rp, Lstat(tree, rp))
    IN  at(RealPath(tree, p))

\* os.Open + read to the end: follows a symlink; a directory cannot be read
ReadFile(tree, p) ==
    LET rd(s) == IF IsErr(s) THEN [err |-> s.kind, content |-> 0]
                 ELSE IF s.kind = "dir" THEN [err |-> "EISDIR", content |-> 0]
                 ELSE [err |-> "nil", content |-> s.content]
    IN  rd(Stat(tree, p))

\* ------------------------------------------------------------------ digest
EmptyChecksum == 0
\* sha256 + hex of a content (injective on Contents)
HashOf(c) == 100 + c
Hashes == {HashOf(c) : c \in Contents}

\* Checksum(path)
Checksum(tree, p) ==
    LET sum(r) == IF r.err # "nil" THEN [err |-> r.err, sum |-> EmptyChecksum]
                  ELSE [err |-> "nil", sum |-> HashOf(r.content)]
    IN  sum(ReadFile(tree, p))

\* VerifyChecksum(path, expected)
VerifyChecksum(tree, p, expected) ==
    LET cmp(c) == IF c.err # "nil" THEN [err |-> c.err, match |-> FALSE]
                  ELSE [err |-> "nil", match |-> (c.sum = expected)]
    IN  cmp(Checksum(tree, p))

\* ----------------------------------------------------------- ledger types
OpFileCreate == "file_create"
OpFileDelete == "file_delete"
OpFileOverwrite == "file_overwrite"
OpDirCreate == "dir_create"
OpSymlinkCreate == "symlink_create"
OpHardlinkCreate == "hardlink_create"

NoBackupPath == <<>>
\* Entry.Original == nil
NoOriginal == [present |-> FALSE, mode |-> 0, checksum |-> EmptyChecksum,
               backup_path |-> NoBackupPath, target |-> <<>>]
OriginalFile(m, sum, bp, t) ==
    [present |-> TRUE, mode |-> m, checksum |-> sum, backup_path |-> bp, target |-> t]

Entry(op, p, m, sum, t, orig) ==
    [op |-> op, path |-> p, mode |-> m, checksum |-> sum, target |-> t, original |-> orig]

Header(pkg) == [version |-> CurrentVersion, package |-> pkg]

\* json.Marshal of an Entry: keys tagged omitempty are left out when zero
EntryKeys == {"op", "path", "mode", "checksum", "target", "original"}
OmittedKeys(e) ==
    (IF e.mode = 0 THEN {"mode"} ELSE {}) \cup
    (IF e.checksum = EmptyChecksum THEN {"checksum"} ELSE {}) \cup
    (IF e.target = <<>> THEN {"target"} ELSE {}) \cup
    (IF ~e.original.present THEN {"original"} ELSE {})
Marshal(e) == [k \in EntryKeys \ OmittedKeys(e) |-> e[k]]

\* json.Unmarshal into a zero Entry
ZeroEntry == Entry("", <<>>, 0, EmptyChecksum, <<>>, NoOriginal)
Unmarshal(line) ==
    [k \in EntryKeys |-> IF k \in DOMAIN line THEN line[k] ELSE ZeroEntry[k]]

RECURSIVE UnmarshalAll(_)
UnmarshalAll(lines) ==
    IF lines = <<>> THEN <<>>
    ELSE <<Unmarshal(Head(lines))>> \o UnmarshalAll(Tail(lines))

\* a ledger file: absent, or a header line followed by entry lines
NoLedgerFile == [exists |-> FALSE, header |-> Header(""), lines |-> <<>>]
\* the handle: file = TRUE while the file is open for writing
NoHandle == [pkg |-> "", entries |-> <<>>, file |-> FALSE]

\* --------------------------------------------------------------- recorder
\* variant: every package's backups go to one directory
BackupPath_Shared(pkg, sum) == <<"p", sum>>

\* a backup file <backup_root>/<pkg>/<checksum>; 0 = no such file
BackupPath(pkg, sum) == <<pkg, sum>>
BackupKeys == {BackupPath(pkg, h) : pkg \in AllPkgs, h \in Hashes}
NoBackups == [k \in BackupKeys |-> 0]

\* variant: when the content-addressed name is taken the copy goes to
\* another name
createBackup_NoDedup(bk, tree, pkg, p, sum) ==
    LET free == {k \in BackupKeys : k[1] = pkg /\ bk[k] = 0}
        bp == IF bk[BackupPath(pkg, sum)] # 0 /\ free # {}
              THEN CHOOSE k \in free : TRUE
              ELSE BackupPath(pkg, sum)
        src == ReadFile(tree, p)
    IN  IF src.err # "nil"
        THEN [backups |-> bk, path |-> NoBackupPath, err |-> src.err]
        ELSE [backups |-> [bk EXCEPT ![bp] = src.content], path |-> bp, err |-> "nil"]

\* variant: the backup path is returned but the copy is not made
createBackup_Skip(bk, tree, pkg, p, sum) ==
    [backups |-> bk, path |-> BackupPath(pkg, sum), err |-> "nil"]

\* Recorder.createBackup
createBackup(bk, tree, pkg, p, sum) ==
    LET copy(bp, src) ==
            IF src.err # "nil"
            THEN [backups |-> bk, path |-> NoBackupPath, err |-> src.err]
            ELSE [backups |-> [bk EXCEPT ![bp] = src.content], path |-> bp, err |-> "nil"]
        at(bp) == IF bk[bp] # 0 THEN [backups |-> bk, path |-> bp, err |-> "nil"]
                  ELSE copy(bp, ReadFile(tree, p))
    IN  at(BackupPath(pkg, sum))

\* Recorder.PrepareOverwrite
PrepareOverwrite(bk, tree, pkg, p) ==
    LET backed(info, sum, b) ==
            IF b.err # "nil" THEN [backups |-> bk, orig |-> NoOriginal, err |-> b.err]
            ELSE [backups |-> b.backups, err |-> "nil",
                  orig |-> OriginalFile(info.mode, sum.sum, b.path, <<>>)]
        summed(info, sum) ==
            IF sum.err # "nil" THEN [backups |-> bk, orig |-> NoOriginal, err |-> sum.err]
            ELSE backed(info, sum, createBackup(bk, tree, pkg, p, sum.sum))
        prep(info) ==
            IF IsErr(info)
            THEN [backups |-> bk, orig |-> NoOriginal,
                  err |-> IF IsNotExist(info) THEN "nil" ELSE info.kind]
            ELSE IF info.kind = "link"
            THEN [backups |-> bk, err |-> "nil",
                  orig |-> OriginalFile(info.mode, EmptyChecksum, NoBackupPath, info.target)]
            ELSE summed(info, Checksum(tree, p))
    IN  prep(Lstat(tree, p))

\* the entry built by Recorder.RecordFileCreate
FileCreateEntry(tree, p) ==
    LET summed(info, sum) ==
            IF sum.err # "nil" THEN [err |-> sum.err, entry |-> ZeroEntry]
            ELSE [err |-> "nil",
                  entry |-> Entry(OpFileCreate, p, info.mode, sum.sum, <<>>, NoOriginal)]
        rec(info) == IF IsErr(info) THEN [err |-> info.kind, entry |-> ZeroEntry]
                     ELSE summed(info, Checksum(tree, p))
    IN  rec(Lstat(tree, p))

\* variant: the entry is a file_create without the original
FileOverwriteEntry_AsCreate(tree, p, orig, newChecksum, newMode) ==
    LET rec(info) ==
            IF IsErr(info) THEN [err |-> info.kind, entry |-> ZeroEntry]
            ELSE [err |-> "nil",
                  entry |-> Entry(OpFileCreate, p, newMode, newChecksum, <<>>, NoOriginal)]
    IN  rec(Lstat(tree, p))

\* the entry built by Recorder.RecordFileOverwriteWithBackup
FileOverwriteEntry(tree, p, orig, newChecksum, newMode) ==
    LET rec(info) ==
            IF IsErr(info) THEN [err |-> info.kind, entry |-> ZeroEntry]
            ELSE [err |-> "nil",
                  entry |-> Entry(OpFileOverwrite, p, newMode, newChecksum, <<>>, orig)]
    IN  rec(Lstat(tree, p))

\* the entry built by Recorder.RecordDirCreate
DirCreateEntry(tree, p) ==
    LET rec(info) ==
            IF IsErr(info) THEN [err |-> info.kind, entry |-> ZeroEntry]
            ELSE [err |-> "nil",
                  entry |-> Entry(OpDirCreate, p, info.mode, EmptyChecksum, <<>>, NoOriginal)]
    IN  rec(Lstat(tree, p))

\* the entry built by Recorder.RecordSymlinkCreate
SymlinkCreateEntry(tree, p, t) ==
    LET rec(info) ==
            IF IsErr(info) THEN [err |-> info.kind, entry |-> ZeroEntry]
            ELSE [err |-> "nil",
                  entry |-> Entry(OpSymlinkCreate, p, info.mode, EmptyChecksum, t, NoOriginal)]
    IN  rec(Lstat(tree, p))

\* the entry built by Recorder.RecordHardlinkCreate
HardlinkCreateEntry(tree, p, t) ==
    LET summed(info, sum) ==
            IF sum.err # "nil" THEN [err |-> sum.err, entry |-> ZeroEntry]
            ELSE [err |-> "nil",
                  entry |-> Entry(OpHardlinkCreate, p, info.mode, sum.sum, t, NoOriginal)]
        rec(info) == IF IsErr(info) THEN [err |-> info.kind, entry |-> ZeroEntry]
                     ELSE summed(info, Checksum(tree, p))
    IN  rec(Lstat(tree, p))

\* Recorder.RecordFileDelete: backs the file up and builds the entry
FileDeleteEntry(bk, tree, pkg, p) ==
    LET backed(info, sum, b) ==
            IF b.err # "nil" THEN [backups |-> bk, err |-> b.err, entry |-> ZeroEntry]
            ELSE [backups |-> b.backups, err |-> "nil",
                  entry |-> Entry(OpFileDelete, p, 0, EmptyChecksum, <<>>,
                                  OriginalFile(info.mode, sum.sum, b.path, <<>>))]
        summed(info, sum) ==
            IF sum.err # "nil" THEN [backups |-> bk, err |-> sum.err, entry |-> ZeroEntry]
            ELSE backed(info, sum, createBackup(bk, tree, pkg, p, sum.sum))
        rec(info) ==
            IF IsErr(info) THEN [backups |-> bk, err |-> info.kind, entry |-> ZeroEntry]
            ELSE IF info.kind = "link"
            THEN [backups |-> bk, err |-> "nil",
                  entry |-> Entry(OpFileDelete, p, 0, EmptyChecksum, <<>>,
                                  OriginalFile(info.mode, EmptyChecksum, NoBackupPath,
                                               info.target))]
            ELSE summed(info, Checksum(tree, p))
    IN  rec(Lstat(tree, p))

\* ----------------------------------------------------------------- replay
ReplayOptions(dry, force, keep) == [DryRun |-> dry, Force |-> force, KeepBackups |-> keep]
Outcome(tree, bk, action, err) == [fs |-> tree, backups |-> bk, action |-> action, err |-> err]

\* copyFile(src, dst) of replay.go with src a backup file:
\* os.Open(src), os.Create(dst), io.Copy
copyFromBackup(tree, bk, bp, dst) ==
    IF bp \notin BackupKeys \/ bk[bp] = 0 THEN [fs |-> tree, err |-> "ENOENT"]
    ELSE OsWriteFile(tree, dst, bk[bp], Mode0644)

\* os.Remove(entry.Original.BackupPath)
removeBackup(bk, bp) == IF bp \in BackupKeys THEN [bk EXCEPT ![bp] = 0] ELSE bk

\* variant: the backup is unlinked whatever KeepBackups says, and also when
\* the copy failed
restoreFromBackup_Unlink(tree, bk, entry, opts) ==
    LET gone == removeBackup(bk, entry.original.backup_path)
        copied(cp) ==
            IF cp.err # "nil" THEN Outcome(cp.fs, gone, "error", "error")
            ELSE Outcome(OsChmod(cp.fs, entry.path, entry.original.mode).fs, gone,
                         "restored", "nil")
        made(md) ==
            IF md.err # "nil" THEN Outcome(md.fs, bk, "error", "error")
            ELSE copied(copyFromBackup(md.fs, bk, entry.original.backup_path, entry.path))
    IN  made(OsMkdirAll(tree, Dir(entry.path), Mode0755))

\* the tail shared by replayFileDelete and replayFileOverwrite:
\* MkdirAll(parent), copyFile(backup, path), Chmod, remove the backup
restoreFromBackup(tree, bk, entry, opts) ==
    LET moded(ch) ==
            Outcome(ch.fs,
                    IF opts.KeepBackups THEN bk
                    ELSE removeBackup(bk, entry.original.backup_path),
                    "restored", "nil")
        copied(cp) ==
            IF cp.err # "nil" THEN Outcome(cp.fs, bk, "error", "error")
            ELSE moded(OsChmod(cp.fs, entry.path, entry.original.mode))
        made(md) ==
            IF md.err # "nil" THEN Outcome(md.fs, bk, "error", "error")
            ELSE copied(copyFromBackup(md.fs, bk, entry.original.backup_path, entry.path))
    IN  made(OsMkdirAll(tree, Dir(entry.path), Mode0755))

\* the end shared by the undo of a created object: os.Remove(entry.Path)
removePath(tree, bk, entry, done) ==
    LET removed(rm) == IF rm.err # "nil" THEN Outcome(tree, bk, "error", "error")
                       ELSE Outcome(rm.fs, bk, done, "nil")
    IN  removed(OsRemove(tree, entry.path))

\* variant: deletes the file without verifying its checksum
replayFileCreate_NoVerify(tree, bk, entry, opts) ==
    LET undo(info) ==
            IF IsNotExist(info) THEN Outcome(tree, bk, "skip (not found)", "skipped")
            ELSE IF IsErr(info) THEN Outcome(tree, bk, "error", "error")
            ELSE IF info.kind # "file" THEN Outcome(tree, bk, "skip (not a file)", "skipped")
            ELSE IF opts.DryRun THEN Outcome(tree, bk, "would delete", "nil")
            ELSE removePath(tree, bk, entry, "deleted")
    IN  undo(Lstat(tree, entry.path))

replayFileCreate(tree, bk, entry, opts) ==
    LET verified(v) ==
            IF entry.checksum # EmptyChecksum /\ v.err # "nil"
            THEN Outcome(tree, bk, "error", "error")
            ELSE IF entry.checksum # EmptyChecksum /\ ~v.match
                 THEN Outcome(tree, bk, "modified", "modified")
            ELSE IF opts.DryRun THEN Outcome(tree, bk, "would delete", "nil")
            ELSE removePath(tree, bk, entry, "deleted")
        undo(info) ==
            IF IsNotExist(info) THEN Outcome(tree, bk, "skip (not found)", "skipped")
            ELSE IF IsErr(info) THEN Outcome(tree, bk, "error", "error")
            ELSE IF info.kind # "file" THEN Outcome(tree, bk, "skip (not a file)", "skipped")
            ELSE verified(VerifyChecksum(tree, entry.path, entry.checksum))
    IN  undo(Lstat(tree, entry.path))

\* variant: a file found at the path is replaced by the backup
replayFileDelete_Clobber(tree, bk, entry, opts) ==
    IF ~entry.original.present THEN Outcome(tree, bk, "error", "error")
    ELSE IF entry.original.backup_path = NoBackupPath THEN Outcome(tree, bk, "error", "error")
    ELSE IF opts.DryRun THEN Outcome(tree, bk, "would restore", "nil")
    ELSE restoreFromBackup(tree, bk, entry, opts)

\* replayFileDelete
replayFileDelete(tree, bk, entry, opts) ==
    IF ~entry.original.present THEN Outcome(tree, bk, "error", "error")
    ELSE IF ~IsErr(Lstat(tree, entry.path)) THEN Outcome(tree, bk, "skip (exists)", "skipped")
    ELSE IF entry.original.backup_path = NoBackupPath THEN Outcome(tree, bk, "error", "error")
    ELSE IF opts.DryRun THEN Outcome(tree, bk, "would restore", "nil")
    ELSE restoreFromBackup(tree, bk, entry, opts)

replayFileOverwrite(tree, bk, entry, opts) ==
    LET verified(v) ==
            IF entry.checksum # EmptyChecksum /\ v.err \notin {"nil", "ENOENT"}
            THEN Outcome(tree, bk, "error", "error")
            ELSE IF entry.checksum # EmptyChecksum /\ ~v.match /\ v.err # "ENOENT"
                 THEN Outcome(tree, bk, "modified", "modified")
            ELSE IF opts.DryRun THEN Outcome(tree, bk, "would restore", "nil")
            ELSE restoreFromBackup(OsRemove(tree, entry.path).fs, bk, entry, opts)
    IN  IF ~entry.original.present THEN Outcome(tree, bk, "error", "error")
        ELSE IF entry.original.backup_path = NoBackupPath
             THEN Outcome(tree, bk, "error", "error")
        ELSE verified(VerifyChecksum(tree, entry.path, entry.checksum))

\* variant: a directory that is not empty is removed with all below it
replayDirCreate_Recursive(tree, bk, entry, opts) ==
    LET below(q) == Len(q) >= Len(entry.path)
                    /\ SubSeq(q, 1, Len(entry.path)) = entry.path
        undo(info) ==
            IF IsNotExist(info) THEN Outcome(tree, bk, "skip (not found)", "skipped")
            ELSE IF IsErr(info) THEN Outcome(tree, bk, "error", "error")
            ELSE IF info.kind # "dir"
                 THEN Outcome(tree, bk, "skip (not a directory)", "skipped")
            ELSE IF opts.DryRun THEN Outcome(tree, bk, "would remove", "nil")
            ELSE Outcome([q \in DOMAIN tree |-> IF below(q) THEN None ELSE tree[q]],
                         bk, "removed", "nil")
    IN  undo(Lstat(tree, entry.path))

\* replayDirCreate that reports the directory removed without removing it
replayDirCreate_NoRmdir(tree, bk, entry, opts) ==
    LET undo(info) ==
            IF IsNotExist(info) THEN Outcome(tree, bk, "skip (not found)", "skipped")
            ELSE IF IsErr(info) THEN Outcome(tree, bk, "error", "error")
            ELSE IF info.kind # "dir"
                 THEN Outcome(tree, bk, "skip (not a directory)", "skipped")
            ELSE IF opts.DryRun THEN Outcome(tree, bk, "would remove", "nil")
            ELSE Outcome(tree, bk, "removed", "nil")
    IN  undo(Lstat(tree, entry.path))

replayDirCreate(tree, bk, entry, opts) ==
    LET removed(rm) ==
            IF rm.err = "ENOTEMPTY" THEN Outcome(tree, bk, "skip (not empty)", "skipped")
            ELSE IF rm.err # "nil" THEN Outcome(tree, bk, "error", "error")
            ELSE Outcome(rm.fs, bk, "removed", "nil")
        undo(info) ==
            IF IsNotExist(info) THEN Outcome(tree, bk, "skip (not found)", "skipped")
            ELSE IF IsErr(info) THEN Outcome(tree, bk, "error", "error")
            ELSE IF info.kind # "dir"
                 THEN Outcome(tree, bk, "skip (not a directory)", "skipped")
            ELSE IF opts.DryRun THEN Outcome(tree, bk, "would remove", "nil")
            ELSE removed(OsRemove(tree, entry.path))
    IN  undo(Lstat(tree, entry.path))

replaySymlinkCreate(tree, bk, entry, opts) ==
    LET undo(info) ==
            IF IsNotExist(info) THEN Outcome(tree, bk, "skip (not found)", "skipped")
            ELSE IF IsErr(info) THEN Outcome(tree, bk, "error", "error")
            ELSE IF info.kind # "link"
                 THEN Outcome(tree, bk, "skip (not a symlink)", "skipped")
            ELSE IF entry.target # <<>> /\ info.target # entry.target
                 THEN Outcome(tree, bk, "modified", "modified")
            ELSE IF opts.DryRun THEN Outcome(tree, bk, "would remove", "nil")
            ELSE removePath(tree, bk, entry, "removed")
    IN  undo(Lstat(tree, entry.path))

replayHardlinkCreate(tree, bk, entry, opts) ==
    LET undo(info) ==
            IF IsNotExist(info) THEN Outcome(tree, bk, "skip (not found)", "skipped")
            ELSE IF IsErr(info) THEN Outcome(tree, bk, "error", "error")
            ELSE IF info.kind # "file" THEN Outcome(tree, bk, "skip (not a file)", "skipped")
            ELSE IF opts.DryRun THEN Outcome(tree, bk, "would remove", "nil")
            ELSE removePath(tree, bk, entry, "removed")
    IN  undo(Lstat(tree, entry.path))

replayEntry(tree, bk, entry, opts) ==
    CASE entry.op = OpFileCreate -> replayFileCreate(tree, bk, entry, opts)
      [] entry.op = OpFileDelete -> replayFileDelete(tree, bk, entry, opts)
      [] entry.op = OpFileOverwrite -> replayFileOverwrite(tree, bk, entry, opts)
      [] entry.op = OpDirCreate -> replayDirCreate(tree, bk, entry, opts)
      [] entry.op = OpSymlinkCreate -> replaySymlinkCreate(tree, bk, entry, opts)
      [] entry.op = OpHardlinkCreate -> replayHardlinkCreate(tree, bk, entry, opts)
      [] OTHER -> Outcome(tree, bk, "unknown", "error")

\* ReplayResult; log is the sequence of OnEntry calls (entry index, action)
EmptyResult == [Processed |-> 0, Skipped |-> 0, Errors |-> <<>>,
                ModifiedFiles |-> <<>>, log |-> <<>>]

\* variant: a forced iteration over a modified entry is not counted
Account_ForcedUncounted(res, idx, entry, out, opts) ==
    LET count(r) ==
            IF out.err = "skipped" THEN [r EXCEPT !.Skipped = @ + 1]
            ELSE IF out.err = "modified"
            THEN IF ~opts.Force
                 THEN [r EXCEPT !.ModifiedFiles = Append(@, entry.path),
                                !.Errors = Append(@, idx)]
                 ELSE [r EXCEPT !.ModifiedFiles = Append(@, entry.path)]
            ELSE IF out.err = "error" THEN [r EXCEPT !.Errors = Append(@, idx)]
            ELSE [r EXCEPT !.Processed = @ + 1]
    IN  count([res EXCEPT !.log = Append(@, [idx |-> idx, action |-> out.action])])

\* the accounting of one iteration of ReverseReplay's loop
Account(res, idx, entry, out, opts) ==
    LET count(r) ==
            IF out.err = "skipped" THEN [r EXCEPT !.Skipped = @ + 1]
            ELSE IF out.err = "modified"
            THEN IF ~opts.Force
                 THEN [r EXCEPT !.ModifiedFiles = Append(@, entry.path),
                                !.Errors = Append(@, idx)]
                 ELSE [r EXCEPT !.ModifiedFiles = Append(@, entry.path),
                                !.Processed = @ + 1]
            ELSE IF out.err = "error" THEN [r EXCEPT !.Errors = Append(@, idx)]
            ELSE [r EXCEPT !.Processed = @ + 1]
    IN  count([res EXCEPT !.log = Append(@, [idx |-> idx, action |-> out.action])])

RECURSIVE ReverseReplayFrom(_, _, _, _, _, _)
\* ReverseReplay's loop from index i down to 1, as one function
ReverseReplayFrom(tree, bk, entries, i, opts, res) ==
    IF i = 0 THEN [fs |-> tree, backups |-> bk, result |-> res]
    ELSE LET rest(out) ==
                 ReverseReplayFrom(out.fs, out.backups, entries, i - 1, opts,
                                   Account(res, i, entries[i], out, opts))
         IN  rest(replayEntry(tree, bk, entries[i], opts))

ReverseReplay(tree, bk, entries, opts) ==
    ReverseReplayFrom(tree, bk, entries, Len(entries), opts, EmptyResult)

\* ---------------------------------------------------------- step executor
StepRun == "run"
StepCopy == "copy"
StepMkdir == "mkdir"
StepSymlink == "symlink"

\* the extracted source directory: file name -> content and permission bits
SrcNames == {"rg", "cfg"}
SrcFile(name) ==
    IF name = "rg" THEN [content |-> 2, mode |-> Mode0755]
    ELSE [content |-> 1, mode |-> Mode0644]

\* an InstallStep; ok is the exit status of a run step's command
Step(type, src, dest, path, mode, ok) ==
    [Type |-> type, Src |-> src, Dest |-> dest, Path |-> path, Mode |-> mode, ok |-> ok]

\* strconv.ParseUint(step.Mode, 8, 32)
ParseMode(str) ==
    CASE str = "0600" -> [err |-> "nil", mode |-> 384]
      [] str = "0644" -> [err |-> "nil", mode |-> Mode0644]
      [] str = "0755" -> [err |-> "nil", mode |-> Mode0755]
      [] OTHER -> [err |-> "invalid mode", mode |-> 0]

StepResult(tree, bk, recs, err) == [fs |-> tree, backups |-> bk, recs |-> recs, err |-> err]

\* copyFile(src, dest, mode) of steps.go
copyFile(tree, src, dest, mode) ==
    LET written(w) == IF w.err # "nil" THEN w ELSE OsChmod(w.fs, dest, mode)
    IN  IF src \notin SrcNames THEN [fs |-> tree, err |-> "open source"]
        ELSE written(OsWriteFile(tree, dest, SrcFile(src).content, mode))

\* Installer.executeCopy
executeCopy(tree, bk, pkg, step) ==
    LET recorded(po, cp, rec) ==
            IF rec.err # "nil" THEN StepResult(cp.fs, po.backups, <<>>, rec.err)
            ELSE StepResult(cp.fs, po.backups, <<rec.entry>>, "nil")
        hashed(mode, po, cp, sum) ==
            IF sum.err # "nil" THEN StepResult(cp.fs, po.backups, <<>>, sum.err)
            ELSE IF po.orig.present
                 THEN recorded(po, cp,
                               FileOverwriteEntry(cp.fs, step.Dest, po.orig, sum.sum, mode))
                 ELSE recorded(po, cp, FileCreateEntry(cp.fs, step.Dest))
        copied(mode, po, cp) ==
            IF cp.err # "nil" THEN StepResult(cp.fs, po.backups, <<>>, cp.err)
            ELSE hashed(mode, po, cp, Checksum(cp.fs, step.Dest))
        prepared(mode, md, po) ==
            IF po.err # "nil" THEN StepResult(md.fs, po.backups, <<>>, po.err)
            ELSE copied(mode, po, copyFile(md.fs, step.Src, step.Dest, mode))
        made(mode, md) ==
            IF md.err # "nil" THEN StepResult(md.fs, bk, <<>>, md.err)
            ELSE prepared(mode, md, PrepareOverwrite(bk, md.fs, pkg, step.Dest))
        parsed(pm) ==
            IF step.Mode # "" /\ pm.err # "nil" THEN StepResult(tree, bk, <<>>, pm.err)
            ELSE made(IF step.Mode # "" THEN pm.mode
                      ELSE IF step.Src \in SrcNames THEN SrcFile(step.Src).mode
                      ELSE Mode0644,
                      OsMkdirAll(tree, Dir(step.Dest), Mode0755))
    IN  parsed(ParseMode(step.Mode))

RECURSIVE missingDirs(_, _)
\* the first loop of mkdirAllRecording: the directories to create, outermost
\* first, or the stat error that stops the walk
missingDirs(tree, current) ==
    LET above(up) == IF up.err # "nil" THEN up
                     ELSE [err |-> "nil", dirs |-> Append(up.dirs, current)]
        walk(s) == IF ~IsErr(s) THEN [err |-> "nil", dirs |-> <<>>]
                   ELSE IF ~IsNotExist(s) THEN [err |-> s.kind, dirs |-> <<>>]
                   ELSE IF Dir(current) = current
                        THEN [err |-> "nil", dirs |-> <<current>>]
                   ELSE above(missingDirs(tree, Dir(current)))
    IN  walk(Stat(tree, current))

RECURSIVE mkdirEach(_, _, _)
\* the second loop of mkdirAllRecording
mkdirEach(tree, dirs, mode) ==
    IF dirs = <<>> THEN [fs |-> tree, err |-> "nil"]
    ELSE LET next(mk) == IF mk.err # "nil" THEN mk
                         ELSE mkdirEach(mk.fs, Tail(dirs), mode)
         IN  next(OsMkdir(tree, Head(dirs), mode))

\* variant: os.MkdirAll makes the directories and only the target is reported
mkdirAllRecording_TargetOnly(tree, p, mode) ==
    LET made(mk) == [fs |-> mk.fs, err |-> mk.err,
                     created |-> IF mk.err = "nil" THEN <<p>> ELSE <<>>]
    IN  made(OsMkdirAll(tree, p, mode))

\* mkdirAllRecording
mkdirAllRecording(tree, p, mode) ==
    LET created(todo, made) ==
            IF made.err # "nil" THEN [fs |-> made.fs, err |-> made.err, created |-> <<>>]
            ELSE [fs |-> made.fs, err |-> "nil", created |-> todo.dirs]
        listed(todo) ==
            IF todo.err # "nil" THEN [fs |-> tree, err |-> todo.err, created |-> <<>>]
            ELSE created(todo, mkdirEach(tree, todo.dirs, mode))
    IN  listed(missingDirs(tree, p))

\* Installer.executeMkdir
executeMkdir(tree, bk, pkg, step) ==
    LET recorded(mk) ==
            IF mk.err # "nil" THEN StepResult(mk.fs, bk, <<>>, mk.err)
            ELSE StepResult(mk.fs, bk,
                            [k \in 1..Len(mk.created) |->
                               DirCreateEntry(mk.fs, mk.created[k]).entry],
                            "nil")
        checked(mode, s) ==
            IF ~IsErr(s) /\ s.kind = "dir" THEN StepResult(tree, bk, <<>>, "nil")
            ELSE recorded(mkdirAllRecording(tree, step.Path, mode))
        parsed(pm) ==
            IF step.Mode # "" /\ pm.err # "nil" THEN StepResult(tree, bk, <<>>, pm.err)
            ELSE checked(IF step.Mode # "" THEN pm.mode ELSE Mode0755,
                         Stat(tree, step.Path))
    IN  parsed(ParseMode(step.Mode))

\* variant: an existing link is replaced even when it already points at the
\* requested target
executeSymlink_Always(tree, bk, pkg, step) ==
    LET recorded(sl, rec) ==
            IF rec.err # "nil" THEN StepResult(sl.fs, bk, <<>>, rec.err)
            ELSE StepResult(sl.fs, bk, <<rec.entry>>, "nil")
        linked(sl) ==
            IF sl.err # "nil" THEN StepResult(sl.fs, bk, <<>>, sl.err)
            ELSE recorded(sl, SymlinkCreateEntry(sl.fs, step.Dest, step.Src))
        cleared(rm) ==
            IF rm.err # "nil" THEN StepResult(rm.fs, bk, <<>>, rm.err)
            ELSE linked(OsSymlink(rm.fs, step.Src, step.Dest))
        found(md, info) ==
            IF IsErr(info) THEN cleared([fs |-> md.fs, err |-> "nil"])
            ELSE cleared(OsRemove(md.fs, step.Dest))
        made(md) ==
            IF md.err # "nil" THEN StepResult(md.fs, bk, <<>>, md.err)
            ELSE found(md, Lstat(md.fs, step.Dest))
    IN  made(OsMkdirAll(tree, Dir(step.Dest), Mode0755))

\* Installer.executeSymlink (target = step.Src, linkPath = step.Dest)
executeSymlink(tree, bk, pkg, step) ==
    LET recorded(sl, rec) ==
            IF rec.err # "nil" THEN StepResult(sl.fs, bk, <<>>, rec.err)
            ELSE StepResult(sl.fs, bk, <<rec.entry>>, "nil")
        linked(sl) ==
            IF sl.err # "nil" THEN StepResult(sl.fs, bk, <<>>, sl.err)
            ELSE recorded(sl, SymlinkCreateEntry(sl.fs, step.Dest, step.Src))
        cleared(rm) ==
            IF rm.err # "nil" THEN StepResult(rm.fs, bk, <<>>, rm.err)
            ELSE linked(OsSymlink(rm.fs, step.Src, step.Dest))
        found(md, info) ==
            IF ~IsErr(info) /\ info.kind = "link" /\ info.target = step.Src
            THEN StepResult(md.fs, bk, <<>>, "nil")
            ELSE IF IsErr(info) THEN cleared([fs |-> md.fs, err |-> "nil"])
            ELSE cleared(OsRemove(md.fs, step.Dest))
        made(md) ==
            IF md.err # "nil" THEN StepResult(md.fs, bk, <<>>, md.err)
            ELSE found(md, Lstat(md.fs, step.Dest))
    IN  made(OsMkdirAll(tree, Dir(step.Dest), Mode0755))

\* Installer.executeRun: the command's own effects are outside the model
executeRun(tree, bk, pkg, step) ==
    StepResult(tree, bk, <<>>, IF step.ok THEN "nil" ELSE "command failed")

\* Installer.executeStep
executeStep(tree, bk, pkg, step) ==
    CASE step.Type = StepRun -> executeRun(tree, bk, pkg, step)
      [] step.Type = StepCopy -> executeCopy(tree, bk, pkg, step)
      [] step.Type = StepMkdir -> executeMkdir(tree, bk, pkg, step)
      [] step.Type = StepSymlink -> executeSymlink(tree, bk, pkg, step)
      [] OTHER -> StepResult(tree, bk, <<>>, "unknown step type")

\* ------------------------------------------------------------------ inputs
\* the install steps a package definition may list
InstallSteps ==
    { Step(StepCopy, "rg", PF, <<>>, "", TRUE),
      Step(StepCopy, "rg", PE, <<>>, "0644", TRUE),
      Step(StepCopy, "cfg", PE, <<>>, "", TRUE),
      Step(StepCopy, "rg", PL, <<>>, "", TRUE),
      Step(StepCopy, "nope", PE, <<>>, "", TRUE),
      Step(StepMkdir, "", <<>>, PAB, "", TRUE),
      Step(StepMkdir, "", <<>>, PE, "", TRUE),
      Step(StepSymlink, PE, PL, <<>>, "", TRUE),
      Step(StepSymlink, PX, PL, <<>>, "", TRUE),
      Step(StepSymlink, PE, PF, <<>>, "", TRUE),
      Step(StepRun, "", <<>>, <<>>, "", FALSE) }

\* target trees found before anything is installed
InitTrees ==
    { EmptyTree,
      [EmptyTree EXCEPT ![PE] = File(1, 384)],
      [EmptyTree EXCEPT ![PE] = File(1, 384), ![PL] = Link(PE)],
      [EmptyTree EXCEPT ![PE] = File(1, 384), ![PA] = DirObj(Mode0755),
                        ![PAB] = DirObj(Mode0755), ![PF] = File(1, Mode0644)] }

\* entries a client may hand to Ledger.Record directly
RawEntries ==
    { Entry("chmod", PE, 0, EmptyChecksum, <<>>, NoOriginal),
      Entry(OpFileCreate, PE, 0, EmptyChecksum, <<>>, NoOriginal),
      Entry(OpFileOverwrite, PE, Mode0644, HashOf(1), <<>>, NoOriginal) }

\* ------------------------------------------------------------------- state
VARIABLES
    fs,          \* the target tree
    backups,     \* the backup store
    ledgerFile,  \* the ledger directory: package -> ledger file
    ledg,        \* the Ledger handle of the running install / client
    pc,          \* what the program is doing
    stepIdx,     \* install steps completed by the running Install
    failure,     \* the failing step of the running Install
    replay,      \* the running ReverseReplay
    ret,         \* what the last finished call returned
    extCount,    \* external mutations so far
    nInstall,    \* package -> ledgers created so far
    nReplay,     \* ReverseReplay calls by remove or a client so far
    preInstall,  \* the target tree when the ledger was created
    postInstall, \* the target tree when the install finished
    procs,       \* concurrent Install processes: process -> its position and handle
    passed,      \* history: package -> the entries passed to Record since Create,
                 \* each with the call that made its handle
    cur          \* the install step being executed statement by statement

vars == <<fs, backups, ledgerFile, ledg, pc, stepIdx, failure, replay, ret,
          extCount, nInstall, nReplay, preInstall, postInstall, procs, passed, cur>>

\* before is the target tree when the failing step began
NoFailure == [step |-> 0, type |-> "", err |-> "nil", before |-> EmptyTree]
Ret(op, err, step, type) == [op |-> op, err |-> err, step |-> step, type |-> type]

\* variant: entries visited in recording order
EntryIndex_Forward(n, k) == k

\* the index (1-based) of the entry handled in the k-th iteration of
\* ReverseReplay's loop over n entries
EntryIndex(n, k) == n - k + 1

\* the loop of ReverseReplay has handled k of n entries
LoopDone(n, k) == k >= n

\* variant: the loop ends at the first entry that fails
NextIteration_Break(n, k, out) == IF out.err = "error" THEN n ELSE k + 1

\* the iteration that follows iteration k (every branch of the loop body
\* ends in continue or falls through to the next iteration)
NextIteration(n, k, out) == k + 1

\* a ReverseReplay call: k iterations done; start is the state it began in
StartReplay(pkg, entries, opts) ==
    [pkg |-> pkg, entries |-> entries, k |-> 0, opts |-> opts, result |-> EmptyResult,
     err |-> "nil",
     start |-> [fs |-> fs, backups |-> backups, ledgerFile |-> ledgerFile]]
NoReplay ==
    [pkg |-> "", entries |-> <<>>, k |-> 0, opts |-> ReplayOptions(FALSE, FALSE, FALSE),
     result |-> EmptyResult, err |-> "nil",
     start |-> [fs |-> EmptyTree, backups |-> NoBackups,
                ledgerFile |-> [pkg \in AllPkgs |-> NoLedgerFile]]]

ReplayPcs == {"rollback", "remove", "replay"}

\* concurrent Install processes sharing the ledger directory, the backup store
\* and the target tree
Procs == 1..NumProcs
\* a process: pc is its position in Install, ledg its Ledger handle, stepIdx
\* the steps it completed, k the iterations of its rollback, err what it returned
NoProc == [pc |-> "start", pkg |-> "", ledg |-> NoHandle, stepIdx |-> 0, k |-> 0,
           err |-> "nil"]
\* the positions in which a process holds an open ledger
HoldingPcs == {"steps", "rollback"}

\* the step in execution: pos is the statement reached, mode the parsed
\* mode, orig what PrepareOverwrite returned, todo the directories still to
\* make, pending what was changed in the tree and is not recorded yet, before
\* the tree when the step began
NoCur == [pos |-> "none", step |-> Step("", "", <<>>, <<>>, "", TRUE), mode |-> 0,
          orig |-> NoOriginal, todo |-> <<>>, pending |-> <<>>, before |-> EmptyTree]

Init ==
    /\ cur = NoCur
    /\ fs \in InitTrees
    /\ backups = NoBackups
    /\ ledgerFile = [pkg \in AllPkgs |-> NoLedgerFile]
    /\ ledg = NoHandle
    /\ pc = "idle"
    /\ stepIdx = 0
    /\ failure = NoFailure
    /\ replay = NoReplay
    /\ ret = Ret("", "nil", 0, "")
    /\ extCount = 0
    /\ nInstall = [pkg \in AllPkgs |-> 0]
    /\ nReplay = 0
    /\ preInstall = fs
    /\ postInstall = fs
    /\ procs = [p \in Procs |-> NoProc]
    /\ passed = [pkg \in AllPkgs |-> <<>>]

\* ------------------------------------------------------------------ ledger
\* Create(dir, pkg, source)
\* variant: the file is opened without O_EXCL and without the Stat check
Create_Clobber(files, pkg) ==
    [err |-> "nil",
     files |-> [files EXCEPT ![pkg] =
                   [exists |-> TRUE, header |-> Header(pkg), lines |-> <<>>]],
     handle |-> [pkg |-> pkg, entries |-> <<>>, file |-> TRUE]]

Create(files, pkg) ==
    IF files[pkg].exists
    THEN [err |-> "ledger already exists", files |-> files, handle |-> NoHandle]
    ELSE [err |-> "nil",
          files |-> [files EXCEPT ![pkg] =
                        [exists |-> TRUE, header |-> Header(pkg), lines |-> <<>>]],
          handle |-> [pkg |-> pkg, entries |-> <<>>, file |-> TRUE]]

\* Open(dir, pkg)
Open(files, pkg) ==
    IF ~files[pkg].exists THEN [err |-> "open ledger file", entries |-> <<>>]
    ELSE IF files[pkg].header.version > CurrentVersion
    THEN [err |-> "ledger version is newer", entries |-> <<>>]
    ELSE [err |-> "nil", entries |-> UnmarshalAll(files[pkg].lines)]

\* Append(dir, pkg): OpenPath, then the file is opened with O_APPEND
AppendLedger(files, pkg) ==
    LET opened(o) == [err |-> o.err,
                      handle |-> IF o.err = "nil"
                                 THEN [pkg |-> pkg, entries |-> o.entries, file |-> TRUE]
                                 ELSE NoHandle]
    IN  opened(Open(files, pkg))

\* variant: the line is written at the start of the file
writeJSON_AtStart(lines, v) == <<Marshal(v)>> \o lines

\* Ledger.writeJSON on a file opened for appending: one line at the end
writeJSON(lines, v) == Append(lines, Marshal(v))

RECURSIVE RecordAll_Unchecked(_, _, _)
\* variant: Record writes without looking at the handle's file
RecordAll_Unchecked(files, handle, recs) ==
    IF recs = <<>> THEN [err |-> "nil", files |-> files, handle |-> handle]
    ELSE RecordAll_Unchecked([files EXCEPT ![handle.pkg].lines = writeJSON(@, Head(recs))],
                             [handle EXCEPT !.entries = Append(@, Head(recs))],
                             Tail(recs))

RECURSIVE RecordAll(_, _, _)
\* Ledger.Record, once per entry of recs: one line written, then the entry
\* appended to the in-memory list
RecordAll(files, handle, recs) ==
    IF recs = <<>> THEN [err |-> "nil", files |-> files, handle |-> handle]
    ELSE IF ~handle.file
    THEN [err |-> "ledger not open for writing", files |-> files, handle |-> handle]
    ELSE RecordAll([files EXCEPT ![handle.pkg].lines = writeJSON(@, Head(recs))],
                   [handle EXCEPT !.entries = Append(@, Head(recs))],
                   Tail(recs))

\* Ledger.Close
Close(handle) == [handle EXCEPT !.file = FALSE]

\* Ledger.Delete
\* variant: the ledger file is kept
Delete_Keep(files, handle) == files

Delete(files, handle) == [files EXCEPT ![handle.pkg] = NoLedgerFile]

\* ledger.Exists
\* variant: no ledger is ever reported
Exists_Never(files, pkg) == FALSE

Exists(files, pkg) == files[pkg].exists

\* ----------------------------------------------------------------- actions
\* Installer.Install up to the first step: the installed check, the dry-run
\* branch (dryRunInstall only reports the steps), Create
InstallStart(pkg, dryRun) ==
    /\ UNCHANGED <<procs, passed, cur>>
    /\ pc = "idle"
    /\ UNCHANGED <<fs, backups, failure, replay, extCount, nReplay, postInstall>>
    /\ IF Exists(ledgerFile, pkg)
       THEN /\ ret' = Ret("install", "already installed", 0, "")
            /\ UNCHANGED <<ledgerFile, ledg, pc, stepIdx, preInstall, nInstall>>
       ELSE IF dryRun
       THEN /\ ret' = Ret("install", "nil", 0, "dry-run")
            /\ UNCHANGED <<ledgerFile, ledg, pc, stepIdx, preInstall, nInstall>>
       ELSE IF Create(ledgerFile, pkg).err # "nil"
       THEN /\ ret' = Ret("install", Create(ledgerFile, pkg).err, 0, "")
            /\ UNCHANGED <<ledgerFile, ledg, pc, stepIdx, preInstall, nInstall>>
       ELSE LET c == Create(ledgerFile, pkg)
            IN  /\ nInstall[pkg] < MaxInstalls
                /\ nInstall' = [nInstall EXCEPT ![pkg] = @ + 1]
                /\ ledgerFile' = c.files
                /\ ledg' = c.handle
                /\ pc' = "install"
                /\ stepIdx' = 0
                /\ preInstall' = fs
                /\ ret' = Ret("", "nil", 0, "")

\* one iteration of Install's loop over the steps; on an error the rollback
\* starts: ReverseReplay(ledg, Force) over the entries recorded so far
InstallStep(step) ==
    /\ UNCHANGED <<procs, passed, cur>>
    /\ pc = "install"
    /\ stepIdx < MaxSteps
    /\ LET r == executeStep(fs, backups, ledg.pkg, step)
           w == RecordAll(ledgerFile, ledg, r.recs)
           err == IF r.err # "nil" THEN r.err ELSE w.err
       IN  /\ fs' = r.fs
           /\ backups' = r.backups
           /\ ledgerFile' = w.files
           /\ ledg' = w.handle
           /\ IF err = "nil"
              THEN /\ stepIdx' = stepIdx + 1
                   /\ UNCHANGED <<pc, failure, replay>>
              ELSE /\ pc' = "rollback"
                   /\ failure' = [step |-> stepIdx + 1, type |-> step.Type, err |-> err,
                                 before |-> fs]
                   /\ replay' = [StartReplay(ledg.pkg, w.handle.entries, ReplayOptions(FALSE, TRUE, FALSE))
                                   EXCEPT !.start.fs = r.fs, !.start.backups = r.backups,
                                          !.start.ledgerFile = w.files]
                   /\ UNCHANGED stepIdx
    /\ UNCHANGED <<ret, extCount, nInstall, nReplay, preInstall, postInstall>>

\* Install returns nil after its last step; the deferred Close runs
InstallDone ==
    /\ UNCHANGED <<procs, passed, cur>>
    /\ pc = "install"
    /\ cur.pos = "none"
    /\ stepIdx >= 1
    /\ pc' = "idle"
    /\ ledg' = Close(ledg)
    /\ ret' = Ret("install", "nil", 0, "")
    /\ postInstall' = fs
    /\ UNCHANGED <<fs, backups, ledgerFile, stepIdx, failure, replay, extCount, nInstall, nReplay, preInstall>>

\* one iteration of ReverseReplay's loop
ReplayStep ==
    /\ UNCHANGED <<procs, passed, cur>>
    /\ pc \in ReplayPcs
    /\ ~LoopDone(Len(replay.entries), replay.k)
    /\ LET n == Len(replay.entries)
           i == EntryIndex(n, replay.k + 1)
           out == replayEntry(fs, backups, replay.entries[i], replay.opts)
       IN  /\ fs' = out.fs
           /\ backups' = out.backups
           /\ replay' = [replay EXCEPT
                           !.k = NextIteration(n, replay.k, out),
                           !.result = Account(@, i, replay.entries[i], out, replay.opts)]
    /\ UNCHANGED <<ledgerFile, ledg, pc, stepIdx, failure, ret, extCount, nInstall, nReplay,
                   preInstall, postInstall>>

\* the end of Install's error branch: rollback returned, ledg.Delete(),
\* the step error is wrapped and returned
RollbackDone ==
    /\ UNCHANGED <<procs, passed, cur>>
    /\ pc = "rollback"
    /\ LoopDone(Len(replay.entries), replay.k)
    /\ ledgerFile' = Delete(ledgerFile, ledg)
    /\ ledg' = Close(ledg)
    /\ ret' = Ret("install", failure.err, failure.step, failure.type)
    /\ pc' = "idle"
    /\ UNCHANGED <<fs, backups, stepIdx, failure, replay, extCount, nInstall, nReplay, preInstall, postInstall>>

\* cmdRemove up to the replay: the installed check, Open, ReverseReplay
RemoveStart(pkg, dryRun, force) ==
    /\ UNCHANGED <<procs, passed, cur>>
    /\ pc = "idle"
    /\ UNCHANGED <<fs, backups, ledgerFile, ledg, stepIdx, failure, extCount, nInstall,
                   preInstall, postInstall>>
    /\ LET o == Open(ledgerFile, pkg)
       IN  IF ~ledgerFile[pkg].exists \/ o.err # "nil"
           THEN /\ ret' = Ret("remove", IF o.err = "nil" THEN "not installed" ELSE o.err, 0, "")
                /\ UNCHANGED <<pc, replay, nReplay>>
           ELSE /\ nReplay < MaxReplays
                /\ nReplay' = nReplay + 1
                /\ pc' = "remove"
                /\ replay' = StartReplay(pkg, o.entries, ReplayOptions(dryRun, force, FALSE))
                /\ ret' = Ret("", "nil", 0, "")

\* variant: the ledger file is removed although the replay reported errors
RemoveDone_IgnoreErrors ==
    /\ pc = "remove"
    /\ UNCHANGED <<procs, passed, cur>>
    /\ LoopDone(Len(replay.entries), replay.k)
    /\ pc' = "idle"
    /\ ret' = Ret("remove", IF replay.result.Errors # <<>> THEN "errors" ELSE "nil", 0, "")
    /\ ledgerFile' = IF replay.opts.DryRun THEN ledgerFile
                     ELSE [ledgerFile EXCEPT ![replay.pkg] = NoLedgerFile]
    /\ UNCHANGED <<fs, backups, ledg, stepIdx, failure, replay, extCount, nInstall, nReplay,
                   preInstall, postInstall>>

\* cmdRemove after the replay: exit 1 on errors, else remove the ledger file
\* unless this is a dry run
\* variant: the ledger file is removed after a dry run too
RemoveDone_IgnoreDryRun ==
    /\ UNCHANGED <<procs, passed, cur>>
    /\ pc = "remove"
    /\ LoopDone(Len(replay.entries), replay.k)
    /\ pc' = "idle"
    /\ IF replay.result.Errors # <<>>
       THEN /\ ret' = Ret("remove", "errors", 0, "")
            /\ UNCHANGED ledgerFile
       ELSE /\ ret' = Ret("remove", "nil", 0, "")
            /\ ledgerFile' = [ledgerFile EXCEPT ![replay.pkg] = NoLedgerFile]
    /\ UNCHANGED <<fs, backups, ledg, stepIdx, failure, replay, extCount, nInstall, nReplay,
                   preInstall, postInstall>>

RemoveDone ==
    /\ UNCHANGED <<procs, passed, cur>>
    /\ pc = "remove"
    /\ LoopDone(Len(replay.entries), replay.k)
    /\ pc' = "idle"
    /\ IF replay.result.Errors # <<>>
       THEN /\ ret' = Ret("remove", "errors", 0, "")
            /\ UNCHANGED ledgerFile
       ELSE /\ ret' = Ret("remove", "nil", 0, "")
            /\ ledgerFile' = IF replay.opts.DryRun THEN ledgerFile
                             ELSE [ledgerFile EXCEPT ![replay.pkg] = NoLedgerFile]
    /\ UNCHANGED <<fs, backups, ledg, stepIdx, failure, replay, extCount, nInstall, nReplay,
                   preInstall, postInstall>>

\* a client of the ledger package (as the package's tests are): Create
ClientCreate(pkg) ==
    /\ UNCHANGED <<procs, passed, cur>>
    /\ pc = "idle"
    /\ LET c == Create(ledgerFile, pkg)
       IN  /\ ledgerFile' = c.files
           /\ ret' = Ret("create", c.err, 0, "")
           /\ IF c.err = "nil"
              THEN /\ nInstall[pkg] < MaxInstalls \/ ledgerFile[pkg].exists
                   /\ nInstall' = IF nInstall[pkg] < MaxInstalls
                                  THEN [nInstall EXCEPT ![pkg] = @ + 1] ELSE nInstall
                   /\ ledg' = c.handle
                   /\ pc' = "client"
                   /\ preInstall' = fs
              ELSE UNCHANGED <<ledg, pc, preInstall, nInstall>>
    /\ UNCHANGED <<fs, backups, stepIdx, failure, replay, extCount, nReplay, postInstall>>

\* the client took the tree to t and the backup store to bk and recorded recs
ClientRecorded(t, bk, recs) ==
    LET w == RecordAll(ledgerFile, ledg, recs)
    IN  /\ fs' = t
        /\ backups' = bk
        /\ ledgerFile' = w.files
        /\ ledg' = w.handle
        /\ UNCHANGED <<procs, passed, cur>>
        /\ UNCHANGED <<pc, stepIdx, failure, replay, ret, extCount, nInstall, nReplay, preInstall, postInstall>>

ClientMayRecord == pc = "client" /\ Len(ledg.entries) < MaxSteps

\* the client writes a new file and calls RecordFileCreate
ClientFileCreate(p, c) ==
    /\ ClientMayRecord
    /\ Lstat(fs, p).kind = "ENOENT"
    /\ LET w == OsWriteFile(fs, p, c, Mode0644)
           rec == FileCreateEntry(w.fs, p)
       IN  /\ w.err = "nil" /\ rec.err = "nil"
           /\ ClientRecorded(w.fs, backups, <<rec.entry>>)

\* the client makes a directory and calls RecordDirCreate
ClientDirCreate(p) ==
    /\ ClientMayRecord
    /\ LET mk == OsMkdir(fs, p, Mode0755)
           rec == DirCreateEntry(mk.fs, p)
       IN  /\ mk.err = "nil" /\ rec.err = "nil"
           /\ ClientRecorded(mk.fs, backups, <<rec.entry>>)

\* the client makes a symlink and calls RecordSymlinkCreate
ClientSymlinkCreate(p, t) ==
    /\ ClientMayRecord
    /\ LET sl == OsSymlink(fs, t, p)
           rec == SymlinkCreateEntry(sl.fs, p, t)
       IN  /\ sl.err = "nil" /\ rec.err = "nil"
           /\ ClientRecorded(sl.fs, backups, <<rec.entry>>)

\* the client makes a hard link and calls RecordHardlinkCreate
ClientHardlinkCreate(p, t) ==
    /\ ClientMayRecord
    /\ LET hl == OsLink(fs, t, p)
           rec == HardlinkCreateEntry(hl.fs, p, t)
       IN  /\ hl.err = "nil" /\ rec.err = "nil"
           /\ ClientRecorded(hl.fs, backups, <<rec.entry>>)

\* the client calls RecordFileDelete and then deletes the file
ClientFileDelete(p) ==
    /\ ClientMayRecord
    /\ LET rec == FileDeleteEntry(backups, fs, ledg.pkg, p)
           rm == OsRemove(fs, p)
       IN  /\ rec.err = "nil" /\ rm.err = "nil"
           /\ ClientRecorded(rm.fs, rec.backups, <<rec.entry>>)

\* the client calls PrepareOverwrite, rewrites the file and calls
\* RecordFileOverwriteWithBackup
ClientFileOverwrite(p, c) ==
    /\ ClientMayRecord
    /\ LET po == PrepareOverwrite(backups, fs, ledg.pkg, p)
           w == OsWriteFile(fs, p, c, Mode0644)
           sum == Checksum(w.fs, p)
           rec == FileOverwriteEntry(w.fs, p, po.orig, sum.sum, Mode0644)
       IN  /\ po.err = "nil" /\ po.orig.present
           /\ w.err = "nil" /\ sum.err = "nil" /\ rec.err = "nil"
           /\ ClientRecorded(w.fs, po.backups, <<rec.entry>>)

\* the client hands an entry of its own making to Ledger.Record
ClientRecord(e) ==
    /\ ClientMayRecord
    /\ ClientRecorded(fs, backups, <<e>>)

\* the client closes the ledger
ClientClose ==
    /\ UNCHANGED <<procs, passed, cur>>
    /\ pc = "client"
    /\ pc' = "idle"
    /\ ledg' = Close(ledg)
    /\ ret' = Ret("close", "nil", 0, "")
    /\ postInstall' = fs
    /\ UNCHANGED <<fs, backups, ledgerFile, stepIdx, failure, replay, extCount, nInstall,
                   nReplay, preInstall>>

\* the client opens a ledger and calls ReverseReplay, keeping the backups
ClientReplay(pkg, dryRun, force) ==
    /\ UNCHANGED <<procs, passed, cur>>
    /\ pc = "idle"
    /\ LET o == Open(ledgerFile, pkg)
       IN  /\ o.err = "nil"
           /\ nReplay < MaxReplays
           /\ nReplay' = nReplay + 1
           /\ pc' = "replay"
           /\ replay' = StartReplay(pkg, o.entries, ReplayOptions(dryRun, force, TRUE))
           /\ ret' = Ret("", "nil", 0, "")
    /\ UNCHANGED <<fs, backups, ledgerFile, ledg, stepIdx, failure, extCount, nInstall,
                   preInstall, postInstall>>

\* ReverseReplay returns its result to the client
ClientReplayDone ==
    /\ UNCHANGED <<procs, passed, cur>>
    /\ pc = "replay"
    /\ LoopDone(Len(replay.entries), replay.k)
    /\ pc' = "idle"
    /\ ret' = Ret("replay", replay.err, 0, "")
    /\ UNCHANGED <<fs, backups, ledgerFile, ledg, stepIdx, failure, replay, extCount, nInstall, nReplay,
                   preInstall, postInstall>>

\* somebody else changes the target tree between an install and its removal
External(t) ==
    /\ UNCHANGED <<procs, passed, cur>>
    /\ pc = "idle"
    /\ extCount < MaxExt
    /\ \E pkg \in Pkgs : ledgerFile[pkg].exists
    /\ t # fs
    /\ fs' = t
    /\ extCount' = extCount + 1
    /\ UNCHANGED <<backups, ledgerFile, ledg, pc, stepIdx, failure, replay, ret,
                   nInstall, nReplay, preInstall, postInstall>>

ExtWrite(p, c) ==
    LET w == OsWriteFile(fs, p, c, Mode0644) IN w.err = "nil" /\ External(w.fs)

ExtRemove(p) ==
    LET rm == OsRemove(fs, p) IN rm.err = "nil" /\ External(rm.fs)

ExtRelink(p, t) ==
    LET rm == OsRemove(fs, p)
        sl == OsSymlink(rm.fs, t, p)
    IN  Lstat(fs, p).kind \in {"link", "ENOENT"} /\ sl.err = "nil" /\ External(sl.fs)

Replaying ==
    \/ ReplayStep
    \/ \E pkg \in Pkgs, dryRun \in BOOLEAN, force \in BOOLEAN : RemoveStart(pkg, dryRun, force)
    \/ RemoveDone

Drift ==
    \/ \E p \in {PE, PF}, c \in {1, 3} : ExtWrite(p, c)
    \/ \E p \in {PE, PF, PL} : ExtRemove(p)
    \/ \E t \in TargetPaths : ExtRelink(PL, t)

\* the installer and the remove command
Next ==
    \/ \E pkg \in Pkgs, dryRun \in BOOLEAN : InstallStart(pkg, dryRun)
    \/ \E step \in InstallSteps : InstallStep(step)
    \/ InstallDone
    \/ RollbackDone
    \/ Replaying
    \/ Drift

\* a client of the ledger package and the remove command
NextClient ==
    \/ \E pkg \in Pkgs : ClientCreate(pkg)
    \/ \E p \in {PE, PF}, c \in {2} : ClientFileCreate(p, c)
    \/ \E p \in {PA, PAB} : ClientDirCreate(p)
    \/ \E t \in TargetPaths : ClientSymlinkCreate(PL, t)
    \/ \E t \in {PE, PF} : ClientHardlinkCreate(PH, t)
    \/ \E p \in {PE, PL} : ClientFileDelete(p)
    \/ \E p \in {PE, PF}, c \in {2} : ClientFileOverwrite(p, c)
    \/ \E e \in RawEntries : ClientRecord(e)
    \/ ClientClose
    \/ \E pkg \in Pkgs, dryRun \in BOOLEAN, force \in BOOLEAN : ClientReplay(pkg, dryRun, force)
    \/ ClientReplayDone
    \/ Replaying
    \/ Drift

\* --------------------------------------------------- concurrent installs
seqVars == <<ledg, pc, stepIdx, failure, replay, ret, extCount, nInstall, nReplay,
             preInstall, postInstall, passed, cur>>

\* the steps the concurrently installed packages list
ConcSteps ==
    { Step(StepCopy, "rg", PE, <<>>, "", TRUE),
      Step(StepMkdir, "", <<>>, PAB, "", TRUE),
      Step(StepRun, "", <<>>, <<>>, "", FALSE) }

\* Install(name) up to the installed check
ProcInstall(p, pkg) ==
    /\ procs[p].pc = "start"
    /\ procs' = [procs EXCEPT ![p] =
                    IF Exists(ledgerFile, pkg)
                    THEN [@ EXCEPT !.pc = "returned", !.pkg = pkg, !.err = "already installed"]
                    ELSE [@ EXCEPT !.pc = "create", !.pkg = pkg]]
    /\ UNCHANGED <<fs, backups, ledgerFile>>
    /\ UNCHANGED seqVars

\* Create: the os.Stat of the ledger path
ProcCreateStat(p) ==
    /\ procs[p].pc = "create"
    /\ procs' = [procs EXCEPT ![p] =
                    IF Exists(ledgerFile, procs[p].pkg)
                    THEN [@ EXCEPT !.pc = "returned", !.err = "ledger already exists"]
                    ELSE [@ EXCEPT !.pc = "open"]]
    /\ UNCHANGED <<fs, backups, ledgerFile>>
    /\ UNCHANGED seqVars

\* Create: os.OpenFile with O_CREATE|O_EXCL and the header line
ProcCreateOpen(p) ==
    /\ procs[p].pc = "open"
    /\ \E c \in {Create(ledgerFile, procs[p].pkg)} :
          /\ ledgerFile' = c.files
          /\ procs' = [procs EXCEPT ![p] =
                          IF c.err = "nil"
                          THEN [@ EXCEPT !.pc = "steps", !.ledg = c.handle]
                          ELSE [@ EXCEPT !.pc = "returned", !.err = c.err]]
    /\ UNCHANGED <<fs, backups>>
    /\ UNCHANGED seqVars

\* one iteration of Install's loop over the steps
ProcStep(p, step) ==
    /\ procs[p].pc = "steps"
    /\ procs[p].stepIdx < MaxSteps
    /\ \E r \in {executeStep(fs, backups, procs[p].pkg, step)} :
       \E w \in {RecordAll(ledgerFile, procs[p].ledg, r.recs)} :
          /\ fs' = r.fs
          /\ backups' = r.backups
          /\ ledgerFile' = w.files
          /\ procs' = [procs EXCEPT ![p] =
                          IF r.err = "nil" /\ w.err = "nil"
                          THEN [@ EXCEPT !.ledg = w.handle, !.stepIdx = @ + 1]
                          ELSE [@ EXCEPT !.ledg = w.handle, !.pc = "rollback", !.k = 0,
                                         !.err = IF r.err # "nil" THEN r.err ELSE w.err]]
    /\ UNCHANGED seqVars

\* one iteration of the rollback's ReverseReplay
ProcRollbackStep(p) ==
    /\ procs[p].pc = "rollback"
    /\ ~LoopDone(Len(procs[p].ledg.entries), procs[p].k)
    /\ \E n \in {Len(procs[p].ledg.entries)} :
       \E out \in {replayEntry(fs, backups, procs[p].ledg.entries[EntryIndex(n, procs[p].k + 1)],
                               ReplayOptions(FALSE, TRUE, FALSE))} :
          /\ fs' = out.fs
          /\ backups' = out.backups
          /\ procs' = [procs EXCEPT ![p].k = NextIteration(n, @, out)]
    /\ UNCHANGED ledgerFile
    /\ UNCHANGED seqVars

\* the rollback returned: ledg.Delete(), Install returns the step's error
ProcRollbackDone(p) ==
    /\ procs[p].pc = "rollback"
    /\ LoopDone(Len(procs[p].ledg.entries), procs[p].k)
    /\ ledgerFile' = Delete(ledgerFile, procs[p].ledg)
    /\ procs' = [procs EXCEPT ![p].pc = "returned", ![p].ledg = Close(@)]
    /\ UNCHANGED <<fs, backups>>
    /\ UNCHANGED seqVars

\* Install returns nil after its last step; the deferred Close runs
ProcDone(p) ==
    /\ procs[p].pc = "steps"
    /\ procs[p].stepIdx >= 1
    /\ procs' = [procs EXCEPT ![p].pc = "returned", ![p].ledg = Close(@)]
    /\ UNCHANGED <<fs, backups, ledgerFile>>
    /\ UNCHANGED seqVars

\* Install processes started at the same time
NextConc ==
    \/ \E p \in Procs, pkg \in AllPkgs : ProcInstall(p, pkg)
    \/ \E p \in Procs : ProcCreateStat(p)
    \/ \E p \in Procs : ProcCreateOpen(p)
    \/ \E p \in Procs, step \in ConcSteps : ProcStep(p, step)
    \/ \E p \in Procs : ProcRollbackStep(p)
    \/ \E p \in Procs : ProcRollbackDone(p)
    \/ \E p \in Procs : ProcDone(p)


\* ------------------------------------------------- the ledger package API
notLedgerVars == <<fs, backups, stepIdx, failure, replay, extCount, nInstall, nReplay,
                   preInstall, postInstall, procs, cur>>

\* entries a caller hands to Record
RecordInputs ==
    RawEntries \cup
    { Entry(OpDirCreate, PA, Mode0755, EmptyChecksum, <<>>, NoOriginal),
      Entry(OpSymlinkCreate, PL, Mode0755, EmptyChecksum, PE, NoOriginal),
      Entry(OpFileDelete, PE, 0, EmptyChecksum, <<>>,
            OriginalFile(Mode0644, HashOf(1), BackupPath("p", HashOf(1)), <<>>)) }

\* Create(dir, pkg, source)
LedgerCreate(pkg) ==
    /\ pc = "idle"
    /\ \E c \in {Create(ledgerFile, pkg)} :
          /\ ledgerFile' = c.files
          /\ ret' = Ret("create", c.err, 0, "")
          /\ IF c.err = "nil"
             THEN /\ ledg' = c.handle
                  /\ pc' = "client"
                  /\ passed' = [passed EXCEPT ![pkg] = <<>>]
             ELSE UNCHANGED <<ledg, pc, passed>>
    /\ UNCHANGED notLedgerVars

\* Ledger.Record(entry)
LedgerRecord(e, via) ==
    /\ pc = "client"
    /\ ret.op = via
    /\ Len(ledg.entries) < MaxSteps
    /\ \E w \in {RecordAll(ledgerFile, ledg, <<e>>)} :
          /\ ledgerFile' = w.files
          /\ ledg' = w.handle
          /\ passed' = IF w.err = "nil"
                       THEN [passed EXCEPT ![ledg.pkg] = Append(@, [entry |-> e, via |-> via])]
                       ELSE passed
    /\ UNCHANGED <<pc, ret>>
    /\ UNCHANGED notLedgerVars

\* Ledger.Close
LedgerClose ==
    /\ pc = "client"
    /\ pc' = "idle"
    /\ ledg' = Close(ledg)
    /\ UNCHANGED <<ledgerFile, ret, passed>>
    /\ UNCHANGED notLedgerVars

\* Append(dir, pkg)
LedgerAppend(pkg) ==
    /\ pc = "idle"
    /\ \E a \in {AppendLedger(ledgerFile, pkg)} :
          /\ ret' = Ret("append", a.err, 0, "")
          /\ IF a.err = "nil"
             THEN ledg' = a.handle /\ pc' = "client"
             ELSE UNCHANGED <<ledg, pc>>
    /\ UNCHANGED <<ledgerFile, passed>>
    /\ UNCHANGED notLedgerVars

\* Open(dir, pkg): the Ledger it returns has no file
LedgerOpen(pkg) ==
    /\ pc = "idle"
    /\ \E o \in {Open(ledgerFile, pkg)} :
          /\ ret' = Ret("open", o.err, 0, "")
          /\ ledg' = IF o.err = "nil"
                     THEN [pkg |-> pkg, entries |-> o.entries, file |-> FALSE]
                     ELSE NoHandle
    /\ UNCHANGED <<ledgerFile, pc, passed>>
    /\ UNCHANGED notLedgerVars

\* OpenStream(dir, pkg) and Stream.Next until io.EOF
OpenStream(files, pkg) ==
    IF ~files[pkg].exists THEN [err |-> "open ledger file", entries |-> <<>>]
    ELSE [err |-> "nil", entries |-> UnmarshalAll(files[pkg].lines)]

\* a caller reads a ledger through the streaming reader
LedgerStream(pkg) ==
    /\ pc = "idle"
    /\ \E o \in {OpenStream(ledgerFile, pkg)} :
          /\ ret' = Ret("stream", o.err, 0, "")
          /\ ledg' = IF o.err = "nil"
                     THEN [pkg |-> pkg, entries |-> o.entries, file |-> FALSE]
                     ELSE NoHandle
    /\ UNCHANGED <<ledgerFile, pc, passed>>
    /\ UNCHANGED notLedgerVars

\* header versions found in ledger files
Versions == {CurrentVersion, CurrentVersion + 1}

\* a ledger file written by another release of the program is found in the
\* ledger directory
LedgerFound(pkg, v, e) ==
    /\ pc = "idle"
    /\ ~Exists(ledgerFile, pkg)
    /\ ledgerFile' = [ledgerFile EXCEPT ![pkg] =
                         [exists |-> TRUE, header |-> [Header(pkg) EXCEPT !.version = v],
                          lines |-> <<Marshal(e)>>]]
    /\ UNCHANGED <<ledg, pc, ret, passed>>
    /\ UNCHANGED notLedgerVars

\* callers of Create, Record, Close, Append, Open and OpenStream
NextLedger ==
    \/ \E pkg \in AllPkgs \ Pkgs, v \in Versions, e \in RawEntries : LedgerFound(pkg, v, e)
    \/ \E pkg \in AllPkgs : LedgerStream(pkg)
    \/ \E pkg \in Pkgs : LedgerCreate(pkg)
    \/ \E e \in RecordInputs, via \in {"create", "append"} : LedgerRecord(e, via)
    \/ LedgerClose
    \/ \E pkg \in AllPkgs : LedgerAppend(pkg)
    \/ \E pkg \in AllPkgs : LedgerOpen(pkg)

\* Ledger.Record(entry) on a handle that came from Open or was closed or
\* deleted
LedgerRecordClosed(e) ==
    /\ pc = "idle"
    /\ ledg.pkg # ""
    /\ \E w \in {RecordAll(ledgerFile, ledg, <<e>>)} :
          /\ ledgerFile' = w.files
          /\ ledg' = w.handle
          /\ ret' = Ret("record", w.err, 0, "")
    /\ UNCHANGED <<pc, passed>>
    /\ UNCHANGED notLedgerVars

\* Ledger.Delete: the file is closed if it was open, and removed
LedgerDelete ==
    /\ pc \in {"idle", "client"}
    /\ ledg.pkg # ""
    /\ ledgerFile' = Delete(ledgerFile, ledg)
    /\ ledg' = Close(ledg)
    /\ ret' = Ret("delete", IF Exists(ledgerFile, ledg.pkg) THEN "nil" ELSE "remove", 0, "")
    /\ pc' = "idle"
    /\ UNCHANGED passed
    /\ UNCHANGED notLedgerVars

\* one caller at a time holding a Ledger: Create, Append, Open, Record,
\* Close and Delete
NextHandle ==
    \/ \E pkg \in Pkgs : LedgerCreate(pkg)
    \/ \E e \in RecordInputs, via \in {"create", "append"} : LedgerRecord(e, via)
    \/ \E e \in RecordInputs : LedgerRecordClosed(e)
    \/ LedgerClose
    \/ LedgerDelete
    \/ \E pkg \in AllPkgs : LedgerAppend(pkg)
    \/ \E pkg \in AllPkgs : LedgerOpen(pkg)

\* ------------------------------------- an install, statement by statement
\* the statements of the running step up to the next position have run: the
\* tree is t, the backup store bk, recs went to Ledger.Record; an error ends
\* the step and starts the rollback as in Install's loop
Advance(t, bk, recs, err, next) ==
    \E w \in {RecordAll(ledgerFile, ledg, recs)} :
       /\ fs' = t
       /\ backups' = bk
       /\ ledgerFile' = w.files
       /\ ledg' = w.handle
       /\ IF err = "nil" /\ w.err = "nil"
          THEN /\ cur' = IF next.pos = "none" THEN NoCur ELSE next
               /\ stepIdx' = IF next.pos = "none" THEN stepIdx + 1 ELSE stepIdx
               /\ UNCHANGED <<pc, failure, replay>>
          ELSE /\ cur' = NoCur
               /\ pc' = "rollback"
               /\ failure' = [step |-> stepIdx + 1, type |-> next.step.Type,
                              err |-> IF err # "nil" THEN err ELSE w.err,
                              before |-> next.before]
               /\ replay' = [StartReplay(ledg.pkg, w.handle.entries,
                                         ReplayOptions(FALSE, TRUE, FALSE))
                               EXCEPT !.start.fs = t, !.start.backups = bk,
                                      !.start.ledgerFile = w.files]
               /\ UNCHANGED stepIdx
       /\ UNCHANGED <<ret, extCount, nInstall, nReplay, preInstall, postInstall,
                      procs, passed>>

\* executeStep enters a step: the statements before the first one that backs
\* up, changes or records the step's own target
StepBegin(step) ==
    /\ pc = "install"
    /\ cur.pos = "none"
    /\ stepIdx < MaxSteps
    /\ \E pm \in {ParseMode(step.Mode)} :
       \E c \in {[NoCur EXCEPT !.step = step, !.before = fs]} :
          CASE step.Type = StepRun ->
                 Advance(fs, backups, <<>>, executeRun(fs, backups, ledg.pkg, step).err,
                         [c EXCEPT !.pos = "none"])
            [] step.Type = StepCopy ->
                 IF step.Mode # "" /\ pm.err # "nil"
                 THEN Advance(fs, backups, <<>>, pm.err, c)
                 ELSE \E md \in {OsMkdirAll(fs, Dir(step.Dest), Mode0755)} :
                         Advance(md.fs, backups, <<>>, md.err,
                                 [c EXCEPT !.pos = "prepare",
                                           !.mode = IF step.Mode # "" THEN pm.mode
                                                    ELSE IF step.Src \in SrcNames
                                                         THEN SrcFile(step.Src).mode
                                                    ELSE Mode0644])
            [] step.Type = StepMkdir ->
                 IF step.Mode # "" /\ pm.err # "nil"
                 THEN Advance(fs, backups, <<>>, pm.err, c)
                 ELSE IF Stat(fs, step.Path).kind = "dir"
                 THEN Advance(fs, backups, <<>>, "nil", c)
                 ELSE \E todo \in {missingDirs(fs, step.Path)} :
                         Advance(fs, backups, <<>>, todo.err,
                                 [c EXCEPT !.pos = IF todo.dirs = <<>> THEN "none" ELSE "mkdir",
                                           !.todo = todo.dirs,
                                           !.mode = IF step.Mode # "" THEN pm.mode
                                                    ELSE Mode0755])
            [] step.Type = StepSymlink ->
                 \E md \in {OsMkdirAll(fs, Dir(step.Dest), Mode0755)} :
                 \E info \in {Lstat(md.fs, step.Dest)} :
                    Advance(md.fs, backups, <<>>, md.err,
                            [c EXCEPT !.pos = IF info.kind = "link" /\ info.target = step.Src
                                              THEN "none"
                                              ELSE IF IsErr(info) THEN "symlink"
                                              ELSE "remove"])

\* executeCopy from PrepareOverwrite on: the backup, then copyFile, then the
\* checksum of the new file and the Record call
CopyStep ==
    /\ pc = "install"
    /\ cur.step.Type = StepCopy
    /\ CASE cur.pos = "prepare" ->
              \E po \in {PrepareOverwrite(backups, fs, ledg.pkg, cur.step.Dest)} :
                 Advance(fs, po.backups, <<>>, po.err,
                         [cur EXCEPT !.pos = "write", !.orig = po.orig])
         [] cur.pos = "write" ->
              \E cp \in {copyFile(fs, cur.step.Src, cur.step.Dest, cur.mode)} :
                 Advance(cp.fs, backups, <<>>, cp.err,
                         [cur EXCEPT !.pos = "record", !.pending = <<cur.step.Dest>>])
         [] cur.pos = "record" ->
              \E sum \in {Checksum(fs, cur.step.Dest)} :
              \E rec \in {IF cur.orig.present
                          THEN FileOverwriteEntry(fs, cur.step.Dest, cur.orig, sum.sum, cur.mode)
                          ELSE FileCreateEntry(fs, cur.step.Dest)} :
                 Advance(fs, backups,
                         IF sum.err = "nil" /\ rec.err = "nil" THEN <<rec.entry>> ELSE <<>>,
                         IF sum.err # "nil" THEN sum.err ELSE rec.err,
                         [cur EXCEPT !.pos = "none", !.pending = <<>>])
         [] OTHER -> FALSE

\* executeMkdir after the walk: one os.Mkdir per missing directory, outermost
\* first, then one RecordDirCreate per directory made
MkdirStep ==
    /\ pc = "install"
    /\ cur.step.Type = StepMkdir
    /\ CASE cur.pos = "mkdir" ->
              \E mk \in {OsMkdir(fs, Head(cur.todo), cur.mode)} :
                 Advance(mk.fs, backups, <<>>, mk.err,
                         [cur EXCEPT !.pos = IF Tail(cur.todo) = <<>> THEN "record" ELSE "mkdir",
                                     !.todo = Tail(cur.todo),
                                     !.pending = Append(cur.pending, Head(cur.todo))])
         [] cur.pos = "record" ->
              \E rec \in {DirCreateEntry(fs, Head(cur.pending))} :
                 Advance(fs, backups,
                         IF rec.err = "nil" THEN <<rec.entry>> ELSE <<>>, rec.err,
                         [cur EXCEPT !.pos = IF Tail(cur.pending) = <<>> THEN "none" ELSE "record",
                                     !.pending = Tail(cur.pending)])
         [] OTHER -> FALSE

\* executeSymlink after the test of the link path: os.Remove of what is
\* there, os.Symlink, RecordSymlinkCreate
SymlinkStep ==
    /\ pc = "install"
    /\ cur.step.Type = StepSymlink
    /\ CASE cur.pos = "remove" ->
              \E rm \in {OsRemove(fs, cur.step.Dest)} :
                 Advance(rm.fs, backups, <<>>, rm.err, [cur EXCEPT !.pos = "symlink"])
         [] cur.pos = "symlink" ->
              \E sl \in {OsSymlink(fs, cur.step.Src, cur.step.Dest)} :
                 Advance(sl.fs, backups, <<>>, sl.err,
                         [cur EXCEPT !.pos = "record", !.pending = <<cur.step.Dest>>])
         [] cur.pos = "record" ->
              \E rec \in {SymlinkCreateEntry(fs, cur.step.Dest, cur.step.Src)} :
                 Advance(fs, backups,
                         IF rec.err = "nil" THEN <<rec.entry>> ELSE <<>>, rec.err,
                         [cur EXCEPT !.pos = "none", !.pending = <<>>])
         [] OTHER -> FALSE

\* the process is killed during an install: what it wrote stays, the handle
\* is gone, neither the rollback nor the deferred Close runs
Crash ==
    /\ pc = "install"
    /\ pc' = "crashed"
    /\ ledg' = Close(ledg)
    /\ UNCHANGED <<fs, backups, ledgerFile, stepIdx, failure, replay, ret, extCount,
                   nInstall, nReplay, preInstall, postInstall, procs, passed, cur>>

\* an install run statement by statement, which may be killed at any point
NextSteps ==
    \/ \E pkg \in Pkgs, dryRun \in BOOLEAN : InstallStart(pkg, dryRun)
    \/ \E step \in InstallSteps : StepBegin(step)
    \/ CopyStep
    \/ MkdirStep
    \/ SymlinkStep
    \/ InstallDone
    \/ ReplayStep
    \/ RollbackDone
    \/ Crash

\* -------------------------------------------- two packages, one after another
\* the steps the two packages list
TwoSteps ==
    { Step(StepCopy, "rg", PE, <<>>, "", TRUE),
      Step(StepCopy, "rg", PF, <<>>, "", TRUE),
      Step(StepCopy, "cfg", PE, <<>>, "", TRUE),
      Step(StepRun, "", <<>>, <<>>, "", FALSE) }

\* installs and removes of two packages sharing the target tree and the
\* backup root
NextTwo ==
    \/ \E pkg \in AllPkgs, dryRun \in BOOLEAN : InstallStart(pkg, dryRun)
    \/ \E step \in TwoSteps : InstallStep(step)
    \/ InstallDone
    \/ RollbackDone
    \/ ReplayStep
    \/ \E pkg \in AllPkgs, dryRun \in BOOLEAN, force \in BOOLEAN : RemoveStart(pkg, dryRun, force)
    \/ RemoveDone

\* ----------------------------------------------- the recorder and the doctor
\* what a Recorder call returned; step is the number of entries the ledger
\* held when the call was made
RecorderRet(op, err, p) ==
    [op |-> op, err |-> err, step |-> Len(ledg.entries), type |-> "", path |-> p]

\* a client calls Recorder.RecordFileDelete(p)
RecorderDelete(p) ==
    /\ ClientMayRecord
    /\ \E rec \in {FileDeleteEntry(backups, fs, ledg.pkg, p)} :
          IF rec.err # "nil"
          THEN /\ ret' = RecorderRet("record_file_delete", rec.err, p)
               /\ UNCHANGED <<backups, ledgerFile, ledg>>
          ELSE \E w \in {RecordAll(ledgerFile, ledg, <<rec.entry>>)} :
                  /\ ret' = RecorderRet("record_file_delete", w.err, p)
                  /\ backups' = rec.backups
                  /\ ledgerFile' = w.files
                  /\ ledg' = w.handle
    /\ UNCHANGED <<fs, pc, stepIdx, failure, replay, extCount, nInstall, nReplay,
                   preInstall, postInstall, procs, passed, cur>>

\* a client calls Recorder.PrepareOverwrite(p)
RecorderPrepare(p) ==
    /\ ClientMayRecord
    /\ \E po \in {PrepareOverwrite(backups, fs, ledg.pkg, p)} :
          /\ ret' = [RecorderRet("prepare_overwrite", po.err, p) EXCEPT
                        !.type = IF po.orig.present THEN "original" ELSE "none"]
          /\ backups' = po.backups
    /\ UNCHANGED <<fs, ledgerFile, ledg, pc, stepIdx, failure, replay, extCount, nInstall,
                   nReplay, preInstall, postInstall, procs, passed, cur>>

\* another release of the program, writing ledgers of version v, deleted the
\* file of content c for package pkg: its ledger and its backup are found in
\* the shared directories
ForeignInstall(pkg, v, c) ==
    /\ pc = "idle"
    /\ ~Exists(ledgerFile, pkg)
    /\ ledgerFile' = [ledgerFile EXCEPT ![pkg] =
          [exists |-> TRUE, header |-> [Header(pkg) EXCEPT !.version = v],
           lines |-> <<Marshal(Entry(OpFileDelete, PX, 0, EmptyChecksum, <<>>,
                          OriginalFile(Mode0644, HashOf(c), BackupPath(pkg, HashOf(c)),
                                       <<>>)))>>]]
    /\ backups' = [backups EXCEPT ![BackupPath(pkg, HashOf(c))] = c]
    /\ UNCHANGED <<fs, ledg, pc, stepIdx, failure, replay, ret, extCount, nInstall, nReplay,
                   preInstall, postInstall, procs, passed, cur>>

\* List(dir): the packages that have a ledger file
List(files) == {pkg \in AllPkgs : files[pkg].exists}

NoIntegrityResult ==
    [ParseError |-> "nil", EntryCount |-> 0, MissingBackups |-> <<>>,
     OrphanedFiles |-> <<>>, ModifiedFiles |-> <<>>]

\* an item of ModifiedFiles: the path and the note appended to it
Modified(p, note) == [path |-> p, note |-> note]

\* the body of CheckLedgerIntegrity's loop over the entries
checkEntry(res, bk, tree, entry, opts) ==
    LET missing(r) ==
            IF /\ entry.original.present
               /\ entry.original.backup_path # NoBackupPath
               /\ bk[entry.original.backup_path] = 0
            THEN [r EXCEPT !.MissingBackups = Append(@, entry.original.backup_path)]
            ELSE r
        orphaned(r) == [r EXCEPT !.OrphanedFiles = Append(@, entry.path)]
        modified(r, note) == [r EXCEPT !.ModifiedFiles = Append(@, Modified(entry.path, note))]
        file(r, l) ==
            IF IsNotExist(l) THEN orphaned(r)
            ELSE IF /\ ~IsErr(l) /\ l.kind = "file" /\ entry.checksum # EmptyChecksum
                    /\ VerifyChecksum(tree, entry.path, entry.checksum).err = "nil"
                    /\ ~VerifyChecksum(tree, entry.path, entry.checksum).match
            THEN modified(r, "")
            ELSE r
        symlink(r, l) ==
            IF IsNotExist(l) THEN orphaned(r)
            ELSE IF IsErr(l) THEN r
            ELSE IF l.kind # "link" THEN modified(r, " (not a symlink)")
            ELSE IF entry.target # <<>> /\ l.target # entry.target THEN modified(r, "")
            ELSE r
        dir(r, s) ==
            IF IsNotExist(s) THEN orphaned(r)
            ELSE IF ~IsErr(s) /\ s.kind # "dir" THEN modified(r, " (not a directory)")
            ELSE r
        files(r) ==
            IF ~opts.CheckFiles THEN r
            ELSE IF entry.op \in {OpFileCreate, OpFileOverwrite}
            THEN file(r, Lstat(tree, entry.path))
            ELSE IF entry.op = OpSymlinkCreate THEN symlink(r, Lstat(tree, entry.path))
            ELSE IF entry.op = OpDirCreate THEN dir(r, Stat(tree, entry.path))
            ELSE r
    IN  files(missing(res))

RECURSIVE checkEntries(_, _, _, _, _)
\* the loop of CheckLedgerIntegrity
checkEntries(res, bk, tree, entries, opts) ==
    IF entries = <<>> THEN res
    ELSE checkEntries(checkEntry(res, bk, tree, Head(entries), opts), bk, tree,
                      Tail(entries), opts)

\* variant: the installed paths are examined whatever opts.CheckFiles is
CheckLedgerIntegrity_Always(files, bk, tree, pkg, opts) ==
    LET checked(o) ==
            IF o.err # "nil" THEN [NoIntegrityResult EXCEPT !.ParseError = o.err]
            ELSE checkEntries([NoIntegrityResult EXCEPT !.EntryCount = Len(o.entries)],
                              bk, tree, o.entries, [opts EXCEPT !.CheckFiles = TRUE])
    IN  checked(Open(files, pkg))

\* CheckLedgerIntegrity(ledgerDir, backupDir, pkg, opts)
CheckLedgerIntegrity(files, bk, tree, pkg, opts) ==
    LET checked(o) ==
            IF o.err # "nil" THEN [NoIntegrityResult EXCEPT !.ParseError = o.err]
            ELSE checkEntries([NoIntegrityResult EXCEPT !.EntryCount = Len(o.entries)],
                              bk, tree, o.entries, opts)
    IN  checked(Open(files, pkg))

\* the backup paths the entries of a ledger refer to
BackupRefs(entries) ==
    { entries[i].original.backup_path :
        i \in { j \in 1..Len(entries) : /\ entries[j].original.present
                                        /\ entries[j].original.backup_path # NoBackupPath } }

\* the first loop of FindOrphanedBackups: ledgers that fail to open are skipped
Referenced(files) ==
    UNION { BackupRefs(Open(files, pkg).entries) :
              pkg \in { q \in List(files) : Open(files, q).err = "nil" } }

\* FindOrphanedBackups(ledgerDir, backupDir): the files of the backup tree
\* that are not in the referenced set (as a set; the walk lists them in
\* lexical order)
FindOrphanedBackups(files, bk) ==
    {k \in BackupKeys : bk[k] # 0 /\ k \notin Referenced(files)}

DoctorOptions(checkFiles) == [CheckFiles |-> checkFiles]

\* the doctor runs CheckLedgerIntegrity on a package and exits
DoctorIntegrity(pkg, checkFiles) ==
    /\ pc = "idle"
    /\ pc' = "audited"
    /\ ret' = [op |-> "check_ledger_integrity", err |-> "nil", step |-> 0, type |-> "",
               pkg |-> pkg, opts |-> DoctorOptions(checkFiles),
               result |-> CheckLedgerIntegrity(ledgerFile, backups, fs, pkg,
                                               DoctorOptions(checkFiles))]
    /\ UNCHANGED <<fs, backups, ledgerFile, ledg, stepIdx, failure, replay, extCount, nInstall,
                   nReplay, preInstall, postInstall, procs, passed, cur>>

\* the doctor runs FindOrphanedBackups and exits
DoctorOrphans ==
    /\ pc = "idle"
    /\ pc' = "audited"
    /\ ret' = [op |-> "find_orphaned_backups", err |-> "nil", step |-> 0, type |-> "",
               orphans |-> FindOrphanedBackups(ledgerFile, backups)]
    /\ UNCHANGED <<fs, backups, ledgerFile, ledg, stepIdx, failure, replay, extCount, nInstall,
                   nReplay, preInstall, postInstall, procs, passed, cur>>

\* a client of the recorder, other releases, drift, the remove command and
\* the doctor
NextDoctor ==
    \/ \E pkg \in Pkgs : ClientCreate(pkg)
    \/ \E p \in {PE, PF}, c \in {2} : ClientFileCreate(p, c)
    \/ \E p \in {PA} : ClientDirCreate(p)
    \/ \E t \in TargetPaths : ClientSymlinkCreate(PL, t)
    \/ \E p \in {PE, PF}, c \in {2} : ClientFileOverwrite(p, c)
    \/ \E p \in {PE, PL, PX} : RecorderDelete(p)
    \/ \E p \in {PE, PL, PX} : RecorderPrepare(p)
    \/ ClientClose
    \/ \E pkg \in AllPkgs \ Pkgs, v \in Versions, c \in {1} : ForeignInstall(pkg, v, c)
    \/ Drift
    \/ Replaying
    \/ \E pkg \in AllPkgs, checkFiles \in BOOLEAN : DoctorIntegrity(pkg, checkFiles)
    \/ DoctorOrphans


Spec == Init /\ [][Next]_vars
SpecDoctor == Init /\ [][NextDoctor]_vars
SpecTwo == Init /\ [][NextTwo]_vars
SpecSteps == Init /\ [][NextSteps]_vars
SpecClient == Init /\ [][NextClient]_vars
SpecConc == Init /\ [][NextConc]_vars
SpecLedger == Init /\ [][NextLedger]_vars
SpecHandle == Init /\ [][NextHandle]_vars

\* ------------------------------------------------------------- well-formed
TypeOK ==
    /\ \A p \in Paths : fs[p].kind \in {"none", "file", "dir", "link"}
    /\ \A p \in Paths : fs[p].kind # "none" => Stat(fs, Dir(p)).kind = "dir"
    /\ \A p \in TargetPaths : fs[p].kind \in {"none", "file", "dir"}
    /\ \A p \in Paths : fs[p].kind = "link" => fs[p].target \in TargetPaths
    /\ \A p \in Paths : \A q \in fs[p].peers :
          /\ q # p /\ fs[p].kind = "file" /\ fs[q].kind = "file"
          /\ p \in fs[q].peers
          /\ fs[q].content = fs[p].content /\ fs[q].mode = fs[p].mode
    /\ pc \in {"idle", "install", "client", "crashed", "audited"} \cup ReplayPcs

\* ------------------------------------------------------------- properties
\* the loop of the running ReverseReplay has ended
ReplayReturned == pc \in ReplayPcs /\ LoopDone(Len(replay.entries), replay.k)

\* the tree the replay started on is the tree the install left
NoDrift == replay.start.fs = postInstall

CreateOps == {OpFileCreate, OpDirCreate, OpSymlinkCreate, OpHardlinkCreate}

OnlyCreates == \A i \in 1..Len(replay.entries) : replay.entries[i].op \in CreateOps

\* C1 (round trip): creations recorded on an empty tree, then an undrifted
\* reverse replay with force=false and dry_run=false, leave the empty tree.
C1_RoundTrip ==
    ( /\ ReplayReturned /\ pc \in {"remove", "replay"}
      /\ preInstall = EmptyTree /\ OnlyCreates /\ NoDrift
      /\ ~replay.opts.Force /\ ~replay.opts.DryRun )
    => fs = preInstall

\* a round trip that removed a directory and what was made after it
C1_Witness ==
    /\ ReplayReturned /\ pc \in {"remove", "replay"}
    /\ preInstall = EmptyTree /\ OnlyCreates /\ NoDrift
    /\ ~replay.opts.Force /\ ~replay.opts.DryRun
    /\ Len(replay.entries) >= 2
    /\ replay.entries[1].op = OpDirCreate
    /\ replay.result.Processed = Len(replay.entries)
    /\ postInstall # EmptyTree

\* this step is one iteration of ReverseReplay's loop
Handles == pc \in ReplayPcs /\ Len(replay'.result.log) = Len(replay.result.log) + 1

\* the index of the entry the last iteration handled, and its label
LastIdx(r) == r.result.log[Len(r.result.log)].idx
LastAction(r) == r.result.log[Len(r.result.log)].action

\* the label entry i got in the running replay
ActionOf(i) ==
    LET k == CHOOSE k \in 1..Len(replay.result.log) : replay.result.log[k].idx = i
    IN  replay.result.log[k].action

InSeq(x, sq) == \E k \in 1..Len(sq) : sq[k] = x

\* C2 (restoration): handling a file_overwrite entry whose original carries a
\* checksum, in an undrifted remove, leaves the path a regular file with the
\* content that hashes to original.checksum and with mode original.mode.
C2_Restoration ==
    [][ ( /\ pc = "remove" /\ NoDrift /\ ~replay.opts.DryRun /\ Handles
          /\ replay.entries[LastIdx(replay')].op = OpFileOverwrite
          /\ replay.entries[LastIdx(replay')].original.present
          /\ replay.entries[LastIdx(replay')].original.checksum # EmptyChecksum )
        => LET e == replay.entries[LastIdx(replay')]
           IN  /\ fs'[e.path].kind = "file"
               /\ HashOf(fs'[e.path].content) = e.original.checksum
               /\ fs'[e.path].mode = e.original.mode ]_vars

\* entry i is the last entry recorded for its path
LastPathEntry(i) ==
    \A j \in (i + 1)..Len(replay.entries) :
       replay.entries[j].path # replay.entries[i].path

\* entry i is the last recorded for its path, it described the object there
\* when the install finished, and the object's content (file) or target
\* (symlink) was changed afterwards
LiveDrift(i) ==
    LET e == replay.entries[i]
        was == postInstall[e.path]
        now == replay.start.fs[e.path]
    IN  /\ LastPathEntry(i)
        /\ \/ /\ e.op \in {OpFileCreate, OpFileOverwrite}
              /\ e.checksum # EmptyChecksum
              /\ was.kind = "file" /\ HashOf(was.content) = e.checksum
              /\ now.kind = "file" /\ now.content # was.content
           \/ /\ e.op = OpSymlinkCreate
              /\ was.kind = "link" /\ was.target = e.target
              /\ now.kind = "link" /\ now.target # e.target

\* the paths of the drifted entries
DriftedPaths ==
    {replay.entries[i].path : i \in {j \in 1..Len(replay.entries) : LiveDrift(j)}}

\* entry i is the only entry of the ledger for its path
SolePathEntry(i) ==
    \A j \in 1..Len(replay.entries) :
       replay.entries[j].path = replay.entries[i].path => j = i

\* the labels the same replay gives on the tree the install left
UndriftedLog ==
    ReverseReplay(postInstall, replay.start.backups, replay.entries, replay.opts).result.log

DriftCheckFails(tree, e) ==
    \/ /\ e.op \in {OpFileCreate, OpFileOverwrite}
       /\ e.checksum # EmptyChecksum
       /\ Lstat(tree, e.path).kind = "file"
       /\ HashOf(tree[e.path].content) # e.checksum
       /\ e.op = OpFileOverwrite =>
             (e.original.present /\ e.original.backup_path # NoBackupPath)
    \/ /\ e.op = OpSymlinkCreate
       /\ e.target # <<>>
       /\ Lstat(tree, e.path).kind = "link"
       /\ tree[e.path].target # e.target

\* C4 (forced drift): with force=true and dry_run=false, handling an entry
\* whose drift check fails performs the undo (the file or link is gone, or
\* the original is back), lists the path in modified_files and adds no error.
C4_ForcedDrift ==
    [][ ( /\ Handles /\ replay.opts.Force /\ ~replay.opts.DryRun
          /\ DriftCheckFails(fs, replay.entries[LastIdx(replay')]) )
        => LET e == replay.entries[LastIdx(replay')]
           IN  /\ e.op \in {OpFileCreate, OpSymlinkCreate}
                     => Lstat(fs', e.path).kind = "ENOENT"
               /\ e.op = OpFileOverwrite
                     => /\ fs'[e.path].kind = "file"
                        /\ HashOf(fs'[e.path].content) = e.original.checksum
               /\ InSeq(e.path, replay'.result.ModifiedFiles)
               /\ ~InSeq(LastIdx(replay'), replay'.result.Errors) ]_vars

\* C5 (LIFO): the k-th entry a reverse replay handles is the k-th from the
\* end of the ledger, so an entry is never handled before one recorded later.
C5_LIFO ==
    \A k \in 1..Len(replay.result.log) :
       replay.result.log[k].idx = Len(replay.entries) - k + 1

\* a directory removed after the child recorded after it
C5_Witness ==
    /\ ReplayReturned
    /\ \E i, j \in 1..Len(replay.entries) :
          /\ i < j
          /\ replay.entries[i].op = OpDirCreate
          /\ Dir(replay.entries[j].path) = replay.entries[i].path
          /\ ActionOf(j) \in {"removed", "deleted"}
          /\ ActionOf(i) = "removed"

\* C6 (no early stop): when ReverseReplay returns, it returns no error, every
\* entry was handled exactly once, and each is counted as processed, skipped
\* or an error.
C6_NeverStopsEarly ==
    ReplayReturned
    => /\ replay.err = "nil"
       /\ Len(replay.result.log) = Len(replay.entries)
       /\ \A i \in 1..Len(replay.entries) :
             Cardinality({k \in 1..Len(replay.result.log) :
                             replay.result.log[k].idx = i}) = 1
       /\ replay.result.Processed + replay.result.Skipped
             + Len(replay.result.Errors) = Len(replay.entries)

\* an unknown op was an error and the entries recorded before it were undone
C6_Witness ==
    /\ ReplayReturned
    /\ Len(replay.result.log) >= 2
    /\ replay.result.log[1].action = "unknown"
    /\ InSeq(Len(replay.entries), replay.result.Errors)
    /\ replay.result.Processed >= 1

\* C7 (dry run): no step of a reverse replay with dry_run=true, nor the end
\* of a dry-run remove, changes the target tree, the backup store or a ledger
\* file; and every entry is handled.
C7_DryRun ==
    /\ [][ (pc \in ReplayPcs /\ replay.opts.DryRun)
           => (fs' = fs /\ backups' = backups /\ ledgerFile' = ledgerFile) ]_vars
    /\ [] ( (ReplayReturned /\ replay.opts.DryRun)
            => Len(replay.result.log) = Len(replay.entries) )

\* a dry-run remove that would have undone two entries and kept the ledger
C7_Witness ==
    /\ pc = "idle" /\ ret.op = "remove" /\ ret.err = "nil"
    /\ replay.opts.DryRun
    /\ replay.result.Processed >= 2
    /\ ledgerFile[replay.pkg].exists
    /\ fs = replay.start.fs

\* Install returned the error of a failed step
InstallFailed == pc = "idle" /\ ret.op = "install" /\ ret.step >= 1

\* C8 (mid-install failure): a failing step starts a reverse replay with
\* force=true over the entries recorded so far; when Install returns, every
\* such entry was handled, the ledger file is gone, and the error names the
\* failing step's 1-based index and type and carries the step's error.
C8_MidInstallFailure ==
    /\ [][ (pc = "install" /\ pc' = "rollback")
           => /\ replay'.opts.Force /\ ~replay'.opts.DryRun
              /\ replay'.entries = ledg'.entries
              /\ replay'.entries = UnmarshalAll(ledgerFile'[ledg.pkg].lines)
              /\ replay'.k = 0 ]_vars
    /\ [] ( InstallFailed
            => /\ ~ledgerFile[replay.pkg].exists
               /\ Len(replay.result.log) = Len(replay.entries)
               /\ ret.step = stepIdx + 1
               /\ ret.type = failure.type
               /\ ret.err = failure.err /\ ret.err # "nil" )

\* the second step failed, the rollback reported an error, the ledger is gone
C8_Witness ==
    /\ InstallFailed
    /\ ret.step = 2
    /\ replay.result.Errors # <<>>
    /\ ~ledgerFile[replay.pkg].exists

\* C9 (rollback restores): when Install returns a step error, what the steps
\* before the failing one created is gone and what they overwrote has its
\* original content.
C9_RollbackRestores ==
    InstallFailed
    => \A p \in Paths :
          /\ (preInstall[p].kind = "none" /\ failure.before[p].kind # "none")
                => fs[p].kind = "none"
          /\ (preInstall[p].kind = "file" /\ failure.before[p] # preInstall[p])
                => (fs[p].kind = "file" /\ fs[p].content = preInstall[p].content)

\* C10 (exclusive create): Create for a package whose ledger file exists
\* returns an error and leaves the ledger files as they were.
C10_ExclusiveCreate ==
    [][ (pc = "idle" /\ ret'.op = "create" /\ \A pkg \in Pkgs : ledgerFile[pkg].exists)
        => (ret'.err # "nil" /\ ledgerFile' = ledgerFile /\ pc' = "idle") ]_vars

\* a refused Create next to a ledger that holds entries
C10_Witness ==
    /\ pc = "idle" /\ ret.op = "create" /\ ret.err # "nil"
    /\ \A pkg \in Pkgs : ledgerFile[pkg].exists /\ Len(ledgerFile[pkg].lines) >= 1


\* C11 (concurrent installs): under every interleaving of Install processes,
\* no two processes hold an open ledger for the same package at the same
\* time; the ledger file of the holder exists and holds exactly the entries
\* the holder recorded; a process that returns an error before it held a
\* ledger leaves every ledger file as it was, and it is refused only when a
\* ledger of its own package exists, so installs of different packages do
\* not block each other.
C11_ConcurrentInstalls ==
    /\ [](\A p \in Procs :
            procs[p].pc \in HoldingPcs =>
              /\ \A q \in Procs \ {p} :
                    procs[q].pc \in HoldingPcs => procs[q].pkg # procs[p].pkg
              /\ Exists(ledgerFile, procs[p].pkg)
              /\ UnmarshalAll(ledgerFile[procs[p].pkg].lines) = procs[p].ledg.entries)
    /\ [][\A p \in Procs :
            procs[p].pc \notin HoldingPcs /\ procs[p].pc # "returned"
              /\ procs'[p].pc = "returned" =>
                 /\ ledgerFile' = ledgerFile
                 /\ Exists(ledgerFile, procs'[p].pkg)]_vars

\* one process records entries for a package, a second one lost the
\* exclusive create for the same package, and a third one records entries
\* for another package
C11_Witness ==
    \E p, q, r \in Procs :
        /\ procs[p].pc = "steps" /\ procs[p].ledg.entries # <<>>
        /\ procs[q].pc = "returned" /\ procs[q].pkg = procs[p].pkg
        /\ procs[q].err = "ledger already exists"
        /\ procs[r].pc = "steps" /\ procs[r].pkg # procs[p].pkg
        /\ procs[r].ledg.entries # <<>>

\* the entries passed to Record on the ledger of pkg, in the order of the calls
PassedEntries(pkg) == [i \in 1..Len(passed[pkg]) |-> passed[pkg][i].entry]

\* C12 (append-only ordering): the entries of a ledger file made by Create
\* (the packages of Pkgs) are at all times
\* exactly the entries passed to Record since Create, in the order of the
\* calls, whether the handle came from Create or, after Close, from Append;
\* an Open call returns exactly those entries; and no step changes or
\* removes a line already written.
C12_AppendOnly ==
    /\ [](\A pkg \in Pkgs :
            Exists(ledgerFile, pkg) =>
              /\ Open(ledgerFile, pkg).err = "nil"
              /\ Open(ledgerFile, pkg).entries = PassedEntries(pkg))
    /\ [](pc = "idle" /\ ret.op = "open" /\ ret.err = "nil" /\ ledg.pkg \in Pkgs =>
            ledg.entries = PassedEntries(ledg.pkg))
    /\ [][\A pkg \in Pkgs :
            Exists(ledgerFile, pkg) /\ Exists(ledgerFile', pkg) =>
              /\ Len(ledgerFile'[pkg].lines) >= Len(ledgerFile[pkg].lines)
              /\ SubSeq(ledgerFile'[pkg].lines, 1, Len(ledgerFile[pkg].lines))
                   = ledgerFile[pkg].lines]_vars

\* an Open returned two different entries, the first recorded through the
\* handle of Create and the second through the handle of Append
C12_Witness ==
    /\ pc = "idle" /\ ret.op = "open" /\ ret.err = "nil" /\ ledg.pkg \in Pkgs
    /\ Len(ledg.entries) = 2
    /\ ledg.entries[1] # ledg.entries[2]
    /\ Len(passed[ledg.pkg]) = 2
    /\ passed[ledg.pkg][1].via = "create"
    /\ passed[ledg.pkg][2].via = "append"

\* entry e names a backup file
HasBackupPath(e) == e.original.present /\ e.original.backup_path # NoBackupPath

\* the backup file entry e names is in the store bk with the content that
\* hashes to original.checksum
BackupIntact(bk, e) ==
    /\ e.original.backup_path \in BackupKeys
    /\ bk[e.original.backup_path] # 0
    /\ HashOf(bk[e.original.backup_path]) = e.original.checksum

\* C13 (backup invariant): whenever a package's ledger file exists and no
\* reverse replay is under way (during install, after install, after a remove
\* that kept the ledger because of errors), every entry's non-empty
\* original.backup_path names a file of the backup store whose content hashes
\* to original.checksum.
C13_BackupInvariant ==
    \A pkg \in Pkgs :
        pc \in {"idle", "install"} /\ Exists(ledgerFile, pkg) =>
            \A i \in 1..Len(ledgerFile[pkg].lines) :
                HasBackupPath(Unmarshal(ledgerFile[pkg].lines[i])) =>
                    BackupIntact(backups, Unmarshal(ledgerFile[pkg].lines[i]))

\* the backup files of pkg in the store
BackupFiles(pkg) == {k \in BackupKeys : k[1] = pkg /\ backups[k] # 0}

\* the entries of the open ledger that name a backup file
BackedEntries == {i \in 1..Len(ledg.entries) : HasBackupPath(ledg.entries[i])}

\* C14 (backup dedup): while a recorder records overwrite and delete
\* entries for one package, every entry's backup_path is
\* <backup_root>/<package>/<original.checksum>, so entries whose originals
\* have the same checksum carry the same path and share one backup file,
\* which is in the store with the content of that checksum; the entries name
\* one file per distinct checksum; and recording never writes a backup file
\* that already exists.
C14_BackupDedup ==
    /\ [](pc = "client" =>
            /\ \A i \in BackedEntries :
                  ledg.entries[i].original.backup_path
                    = BackupPath(ledg.pkg, ledg.entries[i].original.checksum)
            /\ \A i, j \in BackedEntries :
                  ledg.entries[i].original.checksum = ledg.entries[j].original.checksum
                    => ledg.entries[i].original.backup_path
                         = ledg.entries[j].original.backup_path
            /\ \A i \in BackedEntries : BackupIntact(backups, ledg.entries[i])
            /\ Cardinality({ledg.entries[i].original.backup_path : i \in BackedEntries})
                 = Cardinality({ledg.entries[i].original.checksum : i \in BackedEntries}))
    /\ [][pc = "client" /\ pc' = "client" =>
            \A k \in BackupKeys : backups[k] # 0 => backups'[k] = backups[k]]_vars

\* a file_overwrite and a file_delete entry, for different paths, whose
\* originals have the same checksum, with one backup file in the store
C14_Witness ==
    /\ pc = "client"
    /\ Len(ledg.entries) = 2
    /\ {ledg.entries[1].op, ledg.entries[2].op} = {OpFileOverwrite, OpFileDelete}
    /\ ledg.entries[1].path # ledg.entries[2].path
    /\ BackedEntries = {1, 2}
    /\ ledg.entries[1].original.checksum = ledg.entries[2].original.checksum
    /\ Cardinality(BackupFiles(ledg.pkg)) = 1

\* the running ReverseReplay has returned having undone every entry: no
\* dry run, no drift, nothing skipped, no error
Undone ==
    /\ ReplayReturned /\ pc \in {"remove", "replay"}
    /\ ~replay.opts.DryRun /\ NoDrift
    /\ replay.result.Errors = <<>> /\ replay.result.Skipped = 0
    /\ replay.result.Processed = Len(replay.entries)

\* C15 (idempotence of replay): once a reverse replay has undone a ledger,
\* a second ReverseReplay of the same ledger with the same options skips
\* every entry as not found or as existing, reports no error and leaves the
\* target tree as it is.
C15_ReplayIdempotent ==
    Undone =>
        /\ ReverseReplay(fs, backups, replay.entries, replay.opts).fs = fs
        /\ ReverseReplay(fs, backups, replay.entries, replay.opts).result.Errors = <<>>
        /\ \A i \in 1..Len(replay.entries) :
              ReverseReplay(fs, backups, replay.entries, replay.opts).result.log[i].action
                \in {"skip (not found)", "skip (exists)"}

\* the paths at which the finished install created an object
CreatedByInstall == {p \in Paths : preInstall[p].kind = "none" /\ postInstall[p].kind # "none"}

\* C16 (nothing left behind): after an install that succeeded and an
\* undrifted remove (no dry run), no path at which the install created a
\* file, directory or symlink still holds an object.
C16_NothingLeftBehind ==
    ( /\ ReplayReturned /\ pc = "remove"
      /\ ~replay.opts.DryRun /\ NoDrift ) =>
        \A p \in CreatedByInstall : fs[p].kind = "none"

\* C17 (ledger kept): a ledger file is deleted only by the end of a remove
\* whose reverse replay reported no error and was no dry run, or by the end
\* of a failed install's rollback; after a remove whose replay reported an
\* error or was a dry run the ledger file exists and Open returns the
\* entries that were replayed.
C17_LedgerKept ==
    /\ [][\A pkg \in Pkgs :
            Exists(ledgerFile, pkg) /\ ~Exists(ledgerFile', pkg) =>
              \/ pc = "rollback" /\ ledg.pkg = pkg
              \/ /\ pc = "remove" /\ replay.pkg = pkg /\ ReplayReturned
                 /\ replay.result.Errors = <<>> /\ ~replay.opts.DryRun]_vars
    /\ []( ( /\ pc = "idle" /\ ret.op = "remove" /\ ret.err \in {"nil", "errors"}
             /\ (replay.result.Errors # <<>> \/ replay.opts.DryRun) ) =>
                /\ Exists(ledgerFile, replay.pkg)
                /\ Open(ledgerFile, replay.pkg).err = "nil"
                /\ Open(ledgerFile, replay.pkg).entries = replay.entries )

\* a remove that undid one entry, reported an error for another and kept
\* the ledger
C17_Witness ==
    /\ pc = "idle" /\ ret.op = "remove" /\ ret.err = "errors"
    /\ ~replay.opts.DryRun
    /\ replay.result.Errors # <<>>
    /\ \E i \in 1..Len(replay.result.log) :
          replay.result.log[i].action \in {"deleted", "removed", "restored"}
    /\ Exists(ledgerFile, replay.pkg)
    /\ Len(Open(ledgerFile, replay.pkg).entries) = 2

\* C18 (version refusal): no read path yields entries of a ledger file whose
\* header declares a version greater than CurrentVersion: no Open and no
\* streaming read of it has returned without error, and no handle made by
\* Append is open on it.
C18_VersionRefusal ==
    \A pkg \in AllPkgs :
        Exists(ledgerFile, pkg) /\ ledgerFile[pkg].header.version > CurrentVersion =>
            /\ ~(pc = "idle" /\ ret.op \in {"open", "stream"} /\ ret.err = "nil"
                 /\ ledg.pkg = pkg)
            /\ ~(pc = "client" /\ ledg.pkg = pkg)

\* the entry the next iteration of the running ReverseReplay handles
NextEntry == replay.entries[EntryIndex(Len(replay.entries), replay.k + 1)]

\* the next iteration handles a dir_create entry whose directory is not empty
AtNonEmptyDir ==
    /\ pc \in ReplayPcs /\ ~LoopDone(Len(replay.entries), replay.k)
    /\ ~replay.opts.DryRun
    /\ NextEntry.op = OpDirCreate
    /\ Lstat(fs, NextEntry.path).kind = "dir"
    /\ Children(fs, NextEntry.path) # {}

\* C19 (no recursion): when reverse replay without dry run, with or without
\* force, reaches a dir_create entry whose directory is not empty, the entry
\* is labelled "skip (not empty)" and counted as skipped, it is no error and
\* not processed, and the target tree, the directory and its children with
\* it, is left as it is.
C19_NonEmptyDirSkipped ==
    [][AtNonEmptyDir =>
         /\ fs' = fs /\ backups' = backups
         /\ replay'.result.Skipped = replay.result.Skipped + 1
         /\ replay'.result.Errors = replay.result.Errors
         /\ replay'.result.Processed = replay.result.Processed
         /\ replay'.result.ModifiedFiles = replay.result.ModifiedFiles
         /\ LastAction(replay') = "skip (not empty)"]_vars

\* a forced remove has skipped a recorded directory that still holds a child
C19_Witness ==
    /\ ReplayReturned /\ pc = "remove"
    /\ replay.opts.Force /\ ~replay.opts.DryRun
    /\ replay.result.Errors = <<>>
    /\ \E i \in 1..Len(replay.entries) :
          /\ replay.entries[i].op = OpDirCreate
          /\ ActionOf(i) = "skip (not empty)"
          /\ fs[replay.entries[i].path].kind = "dir"
          /\ Children(fs, replay.entries[i].path) # {}

\* scenario S3: on the empty tree the install [mkdir /a/b, copy rg -> /a/b/f]
\* recorded dir_create /a, dir_create /a/b, file_create /a/b/f; the content
\* of /a/b/f was then changed and nothing else; a remove with force=false and
\* no dry run has returned
S3Replayed ==
    /\ ReplayReturned /\ pc = "remove"
    /\ ~replay.opts.Force /\ ~replay.opts.DryRun
    /\ preInstall = EmptyTree
    /\ Len(replay.entries) = 3
    /\ replay.entries[1].op = OpDirCreate /\ replay.entries[1].path = PA
    /\ replay.entries[2].op = OpDirCreate /\ replay.entries[2].path = PAB
    /\ replay.entries[3].op = OpFileCreate /\ replay.entries[3].path = PF
    /\ replay.start.fs[PF].kind = "file"
    /\ replay.start.fs[PF].content # postInstall[PF].content
    /\ \A p \in Paths \ {PF} : replay.start.fs[p] = postInstall[p]

\* what S3 expects of the result and of the file
S3FileKept ==
    /\ replay.result.ModifiedFiles = <<PF>>
    /\ Len(replay.result.Errors) = 1
    /\ replay.entries[replay.result.Errors[1]].path = PF
    /\ fs[PF] = replay.start.fs[PF]

\* C20 (scenario S3, with the directories removed): the replay of S3 reports
\* /a/b/f in modified_files and one error, keeps the file with its changed
\* content, and removes the enclosing directories /a/b and /a.
C20_S3DirsRemoved ==
    S3Replayed => (S3FileKept /\ fs[PAB].kind = "none" /\ fs[PA].kind = "none")

\* C20 (scenario S3): the replay of S3 reports /a/b/f in modified_files and
\* one error, keeps the file with its changed content, and skips the
\* enclosing directories /a/b and /a as not empty, so that the tree is as
\* the replay found it.
C20_S3 ==
    S3Replayed =>
        /\ S3FileKept
        /\ ActionOf(3) = "modified"
        /\ ActionOf(2) = "skip (not empty)" /\ ActionOf(1) = "skip (not empty)"
        /\ replay.result.Skipped = 2 /\ replay.result.Processed = 0
        /\ fs[PAB].kind = "dir" /\ fs[PA].kind = "dir"
        /\ fs = replay.start.fs

\* the replay of S3 has returned
C20_Witness == S3Replayed /\ Len(replay.result.log) = 3

\* an Install call made while the program is idle has returned or has created
\* its ledger
InstallCalled ==
    pc = "idle" /\ (pc' = "install" \/ (ret'.op = "install" /\ ret' # ret))

\* C21 (install conflict): Install of a package whose ledger exists returns
\* the conflict error without creating a ledger or running a step and leaves
\* the ledger directory, the target tree and the backup store as they were;
\* after an Install that returned nil (not a dry run) the ledger exists, so
\* the next Install of the package is refused.
C21_InstallConflict ==
    /\ [][ (InstallCalled /\ \E pkg \in Pkgs : ledgerFile[pkg].exists)
           => /\ pc' = "idle"
              /\ ret'.err = "already installed"
              /\ UNCHANGED <<fs, backups, ledgerFile, ledg, stepIdx>> ]_vars
    /\ [] ( (pc = "idle" /\ ret.op = "install" /\ ret.err = "nil" /\ ret.type # "dry-run")
            => \E pkg \in Pkgs : ledgerFile[pkg].exists )

\* a second Install was refused after an install that wrote entries and
\* backed a file up
C21_Witness ==
    /\ pc = "idle" /\ ret.op = "install" /\ ret.err = "already installed"
    /\ \E pkg \in Pkgs : ledgerFile[pkg].exists /\ ledgerFile[pkg].lines # <<>>
    /\ \E k \in BackupKeys : backups[k] # 0

\* the lines of the running install's ledger file
InstallLines == ledgerFile[ledg.pkg].lines

\* this step appended one entry to the ledger of the running install
Appended ==
    /\ pc = "install"
    /\ ledgerFile'[ledg.pkg].exists
    /\ Len(ledgerFile'[ledg.pkg].lines) = Len(InstallLines) + 1
    /\ SubSeq(ledgerFile'[ledg.pkg].lines, 1, Len(InstallLines)) = InstallLines

NewEntry == Unmarshal(ledgerFile'[ledg.pkg].lines[Len(InstallLines) + 1])

\* what entry e describes is in the tree
Happened(tree, e) ==
    CASE e.op \in {OpFileCreate, OpFileOverwrite} ->
           /\ Checksum(tree, e.path).err = "nil"
           /\ Checksum(tree, e.path).sum = e.checksum
      [] e.op = OpDirCreate -> Lstat(tree, e.path).kind = "dir"
      [] e.op = OpSymlinkCreate ->
           Lstat(tree, e.path).kind = "link" /\ Lstat(tree, e.path).target = e.target
      [] OTHER -> FALSE

\* this step of a copy writes to a destination that is a regular file
DestructiveWrite ==
    /\ pc = "install"
    /\ cur.step.Type = StepCopy
    /\ Lstat(fs, cur.step.Dest).kind = "file"
    /\ fs' # fs

HandlesRestore ==
    /\ Handles
    /\ NextEntry.op \in {OpFileOverwrite, OpFileDelete}

\* C23 (keep_backups): an iteration of reverse replay that restores a
\* file_overwrite or file_delete entry from its backup leaves the backup store
\* as it was when keep_backups is set and unlinks exactly this entry's backup
\* file when it is not; an iteration that does not end in "restored" (an
\* error, a skip, drift, a dry run), and the undo of any other entry, unlinks
\* nothing.
C23_KeepBackups ==
    /\ [][ (HandlesRestore /\ LastAction(replay') = "restored")
           => /\ backups[NextEntry.original.backup_path] # 0
              /\ IF replay.opts.KeepBackups
                 THEN backups' = backups
                 ELSE backups' = [backups EXCEPT ![NextEntry.original.backup_path] = 0] ]_vars
    /\ [][ (Handles /\ LastAction(replay') # "restored") => backups' = backups ]_vars
    /\ [][ (Handles /\ LastAction(replay') = "restored") => HandlesRestore ]_vars

\* a remove restored a deleted or overwritten file and unlinked its backup,
\* and met another restore entry that did not end in "restored"
C23_Witness ==
    /\ pc = "remove" /\ ~replay.opts.KeepBackups
    /\ \E a, b \in 1..Len(replay.result.log) :
          /\ replay.result.log[a].action = "restored"
          /\ replay.entries[replay.result.log[a].idx].op \in {OpFileOverwrite, OpFileDelete}
          /\ backups[replay.entries[replay.result.log[a].idx].original.backup_path] = 0
          /\ replay.result.log[b].action # "restored"
          /\ replay.entries[replay.result.log[b].idx].op \in {OpFileOverwrite, OpFileDelete}

\* the package on whose behalf the program is installing, rolling back or
\* removing
ActingPkg ==
    IF pc \in {"install", "rollback"} THEN ledg.pkg
    ELSE IF pc = "remove" THEN replay.pkg
    ELSE ""

\* the entries of package pkg's ledger file that carry a backup path
BackedLines(pkg) ==
    {i \in 1..Len(ledgerFile[pkg].lines) : HasBackupPath(Unmarshal(ledgerFile[pkg].lines[i]))}

\* C24 (backup ownership): every backup_path in the ledger of package P is a
\* file name under <backup_root>/P/, and no step of an install, rollback or
\* remove of P creates, rewrites or unlinks a backup file under another
\* package's directory, also when both packages backed up equal content.
C24_BackupOwnership ==
    /\ [] ( \A pkg \in AllPkgs : \A i \in BackedLines(pkg) :
              /\ Unmarshal(ledgerFile[pkg].lines[i]).original.backup_path \in BackupKeys
              /\ Unmarshal(ledgerFile[pkg].lines[i]).original.backup_path[1] = pkg )
    /\ [][ \A k \in BackupKeys : k[1] # ActingPkg => backups'[k] = backups[k] ]_vars

\* package p was removed and its backup unlinked while the ledger of q names
\* a backup of the same content, which is still in the store
C24_Witness ==
    /\ pc = "idle" /\ ret.op = "remove" /\ ret.err = "nil" /\ replay.pkg = "p"
    /\ \E i \in 1..Len(replay.entries) :
          /\ replay.entries[i].original.backup_path = BackupPath("p", HashOf(1))
          /\ backups[BackupPath("p", HashOf(1))] = 0
    /\ ledgerFile["q"].exists
    /\ \E i \in BackedLines("q") :
          /\ Unmarshal(ledgerFile["q"].lines[i]).original.backup_path = BackupPath("q", HashOf(1))
          /\ backups[BackupPath("q", HashOf(1))] = 1

\* this step is a call of RecordFileDelete or PrepareOverwrite
RecorderCalled == ret' # ret /\ ret'.op \in {"record_file_delete", "prepare_overwrite"}

\* C25 (nonexistent path is benign): RecordFileDelete and PrepareOverwrite
\* called on a path that does not exist return no error and no original,
\* create no backup file and append no ledger entry.
C25_NonexistentBenign ==
    [][ (RecorderCalled /\ IsNotExist(Lstat(fs, ret'.path)))
        => /\ ret'.err = "nil"
           /\ ret'.type # "original"
           /\ backups' = backups
           /\ ledgerFile' = ledgerFile
           /\ ledg' = ledg ]_vars

\* the doctor has run CheckLedgerIntegrity
Audited == pc = "audited" /\ ret.op = "check_ledger_integrity"

\* the entries of the audited ledger
AuditedEntries == Open(ledgerFile, ret.pkg).entries

\* every backup_path of the audited ledger names a backup file whose content
\* hashes to the original's checksum
BackupsIntact ==
    \A i \in 1..Len(AuditedEntries) :
       (/\ AuditedEntries[i].original.present
        /\ AuditedEntries[i].original.backup_path # NoBackupPath)
       => /\ backups[AuditedEntries[i].original.backup_path] # 0
          /\ HashOf(backups[AuditedEntries[i].original.backup_path])
                = AuditedEntries[i].original.checksum

\* the path of every file_create, file_overwrite, symlink_create and
\* dir_create entry of the audited ledger holds what the entry describes
AsRecorded ==
    \A i \in 1..Len(AuditedEntries) :
       AuditedEntries[i].op \in {OpFileCreate, OpFileOverwrite, OpSymlinkCreate, OpDirCreate}
       => Happened(fs, AuditedEntries[i])

\* C26 as stated (integrity audit): for a ledger whose backup paths all name
\* existing backups of the recorded checksum, CheckLedgerIntegrity returns
\* empty missing_backups, orphaned_files and modified_files.
C26_IntegrityAuditAll ==
    (Audited /\ BackupsIntact)
    => /\ ret.result.MissingBackups = <<>>
       /\ ret.result.OrphanedFiles = <<>>
       /\ ret.result.ModifiedFiles = <<>>

\* C26 (integrity audit): for a ledger whose backup paths all name existing
\* backups of the recorded checksum, CheckLedgerIntegrity returns empty
\* missing_backups; orphaned_files and modified_files are empty when
\* check_files is off or every installed path still holds what its entry
\* describes.
C26_IntegrityAudit ==
    (Audited /\ BackupsIntact)
    => /\ ret.result.MissingBackups = <<>>
       /\ (~ret.opts.CheckFiles \/ AsRecorded)
          => /\ ret.result.OrphanedFiles = <<>>
             /\ ret.result.ModifiedFiles = <<>>

\* an audit with check_files of a ledger of two entries, one of them an
\* overwrite with its backup, all installed paths as recorded
C26_Witness ==
    /\ Audited /\ BackupsIntact /\ AsRecorded
    /\ ret.opts.CheckFiles
    /\ ret.result.EntryCount = 2
    /\ \E i \in 1..Len(AuditedEntries) :
          /\ AuditedEntries[i].op = OpFileOverwrite
          /\ AuditedEntries[i].original.backup_path # NoBackupPath
    /\ ret.result.MissingBackups = <<>>
    /\ ret.result.OrphanedFiles = <<>>
    /\ ret.result.ModifiedFiles = <<>>

\* the doctor has run FindOrphanedBackups
OrphansFound == pc = "audited" /\ ret.op = "find_orphaned_backups"

\* some entry line of an existing ledger file carries backup path k
ReferencedByFile(k) ==
    \E pkg \in AllPkgs :
       /\ ledgerFile[pkg].exists
       /\ \E i \in 1..Len(ledgerFile[pkg].lines) :
             /\ Unmarshal(ledgerFile[pkg].lines[i]).original.present
             /\ Unmarshal(ledgerFile[pkg].lines[i]).original.backup_path = k

\* C27 (orphaned backups): FindOrphanedBackups reports a file of the backup
\* tree if and only if no ledger file of the ledger directory references
\* it through an entry's backup_path.
C27_OrphanedBackups ==
    OrphansFound
    => \A k \in BackupKeys :
          k \in ret.orphans <=> (backups[k] # 0 /\ ~ReferencedByFile(k))

\* the step of this transition is an install step that succeeded
StepSucceeded(step) == InstallStep(step) /\ stepIdx' = stepIdx + 1

\* the ledger lines this step appended
NewLines ==
    SubSeq(ledgerFile'[ledg.pkg].lines, Len(ledgerFile[ledg.pkg].lines) + 1,
           Len(ledgerFile'[ledg.pkg].lines))

\* p and the paths above it, the root excluded
Prefixes(p) == {SubSeq(p, 1, k) : k \in 1..Len(p)}

\* the directories of p's chain that do not exist in the tree
MissingDirs(tree, p) == {d \in Prefixes(p) : IsNotExist(Stat(tree, d))}

\* the mode a mkdir step asks for
RequestedMode(step) == IF step.Mode = "" THEN Mode0755 ELSE ParseMode(step.Mode).mode

\* C28 (mkdir step): a mkdir step that succeeds on an existing directory
\* changes and records nothing; otherwise it creates exactly the missing
\* directories of the path with the requested mode and appends one dir_create
\* entry per created directory, outermost first, so that each recorded
\* directory's parent existed before the step or is recorded earlier.
C28_MkdirStep ==
    [][ \A step \in {s \in InstallSteps : s.Type = StepMkdir} :
          StepSucceeded(step)
          => /\ backups' = backups
             /\ IF Stat(fs, step.Path).kind = "dir"
                THEN fs' = fs /\ ledgerFile' = ledgerFile
                ELSE /\ \A p \in Paths :
                          fs'[p] = IF p \in MissingDirs(fs, step.Path)
                                   THEN DirObj(RequestedMode(step)) ELSE fs[p]
                     /\ Len(NewLines) = Cardinality(MissingDirs(fs, step.Path))
                     /\ \A i \in 1..Len(NewLines) :
                          /\ Unmarshal(NewLines[i]).op = OpDirCreate
                          /\ Unmarshal(NewLines[i]).path \in MissingDirs(fs, step.Path)
                          /\ Unmarshal(NewLines[i]).mode = RequestedMode(step)
                          /\ \A j \in 1..(i - 1) :
                                Len(Unmarshal(NewLines[j]).path)
                                  < Len(Unmarshal(NewLines[i]).path)
                          /\ \/ Stat(fs, Dir(Unmarshal(NewLines[i]).path)).kind = "dir"
                             \/ \E j \in 1..(i - 1) :
                                   Unmarshal(NewLines[j]).path
                                     = Dir(Unmarshal(NewLines[i]).path) ]_vars

\* the first step of an install made /a and /a/b and recorded both, in
\* that order
C28_Witness ==
    /\ pc = "install" /\ stepIdx = 1
    /\ preInstall[PA].kind = "none"
    /\ fs[PA].kind = "dir" /\ fs[PAB].kind = "dir"
    /\ Len(ledgerFile[ledg.pkg].lines) = 2
    /\ Unmarshal(ledgerFile[ledg.pkg].lines[1]).op = OpDirCreate
    /\ Unmarshal(ledgerFile[ledg.pkg].lines[1]).path = PA
    /\ Unmarshal(ledgerFile[ledg.pkg].lines[2]).op = OpDirCreate
    /\ Unmarshal(ledgerFile[ledg.pkg].lines[2]).path = PAB

\* what the entry appended by a copy step carries as original, given the
\* object old found at the destination before the step
CapturedOriginal(e, old) ==
    /\ e.original.present
    /\ e.original.mode = old.mode
    /\ IF old.kind = "link"
       THEN /\ e.original.target = old.target
            /\ e.original.backup_path = NoBackupPath
       ELSE /\ e.original.checksum = HashOf(old.content)
            /\ e.original.backup_path = BackupPath(ledg.pkg, HashOf(old.content))
            /\ backups'[e.original.backup_path] = old.content

\* C29 (copy step): a copy step that succeeds appends exactly one entry, for
\* its destination: file_overwrite with the captured original when something
\* was at the destination before the step, file_create otherwise; the
\* entry's checksum is the hash of the destination's content after the copy,
\* which is the source's content.
C29_CopyStep ==
    [][ \A step \in {s \in InstallSteps : s.Type = StepCopy} :
          StepSucceeded(step)
          => /\ Len(NewLines) = 1
             /\ Unmarshal(NewLines[1]).path = step.Dest
             /\ Stat(fs', step.Dest).kind = "file"
             /\ Stat(fs', step.Dest).content = SrcFile(step.Src).content
             /\ Unmarshal(NewLines[1]).checksum = HashOf(Stat(fs', step.Dest).content)
             /\ IF IsErr(Lstat(fs, step.Dest))
                THEN /\ Unmarshal(NewLines[1]).op = OpFileCreate
                     /\ ~Unmarshal(NewLines[1]).original.present
                     /\ backups' = backups
                ELSE /\ Unmarshal(NewLines[1]).op = OpFileOverwrite
                     /\ CapturedOriginal(Unmarshal(NewLines[1]), Lstat(fs, step.Dest)) ]_vars

\* the first step of an install copied rg over the existing file /e and
\* recorded the overwrite with its backup
C29_Witness ==
    /\ pc = "install" /\ stepIdx = 1
    /\ preInstall[PE].kind = "file"
    /\ fs[PE].content = SrcFile("rg").content
    /\ Len(ledgerFile[ledg.pkg].lines) = 1
    /\ Unmarshal(ledgerFile[ledg.pkg].lines[1]).op = OpFileOverwrite
    /\ Unmarshal(ledgerFile[ledg.pkg].lines[1]).path = PE
    /\ Unmarshal(ledgerFile[ledg.pkg].lines[1]).checksum = HashOf(fs[PE].content)
    /\ backups[Unmarshal(ledgerFile[ledg.pkg].lines[1]).original.backup_path]
         = preInstall[PE].content

\* the link path of the step holds a symlink to the requested target
AlreadyLinked(tree, step) ==
    Lstat(tree, step.Dest).kind = "link" /\ Lstat(tree, step.Dest).target = step.Src

\* the remove command's replay of an undrifted install has returned
Uninstalled == pc = "remove" /\ ReplayReturned /\ NoDrift

\* no entry of the replayed ledger is about path p
Unrecorded(p) == \A i \in 1..Len(replay.entries) : replay.entries[i].path # p

\* C30 (symlink step on an existing link): a symlink step that succeeds on a
\* link path already holding a symlink to the requested target changes
\* nothing and appends no entry; in every other case the link path is then a
\* symlink to the requested target and exactly one symlink_create entry with
\* that target was appended.  A symlink that was there before the install
\* and has no entry in the ledger is in place after the uninstall.
C30_SymlinkStep ==
    /\ [][ \A step \in {s \in InstallSteps : s.Type = StepSymlink} :
             StepSucceeded(step)
             => /\ backups' = backups
                /\ IF AlreadyLinked(fs, step)
                   THEN fs' = fs /\ ledgerFile' = ledgerFile
                   ELSE /\ AlreadyLinked(fs', step)
                        /\ Len(NewLines) = 1
                        /\ Unmarshal(NewLines[1]).op = OpSymlinkCreate
                        /\ Unmarshal(NewLines[1]).path = step.Dest
                        /\ Unmarshal(NewLines[1]).target = step.Src ]_vars
    /\ [] ( Uninstalled
            => \A p \in Paths :
                  (preInstall[p].kind = "link" /\ Unrecorded(p)) => fs[p] = preInstall[p] )

\* an install of two steps on a tree where /l already pointed at /e
\* recorded only its copy over /e; after the uninstall the link is in place
C30_Witness ==
    /\ Uninstalled
    /\ ~replay.opts.DryRun
    /\ stepIdx = 2
    /\ preInstall[PL] = Link(PE)
    /\ Len(replay.entries) = 1
    /\ replay.entries[1].path = PE
    /\ replay.result.Processed = 1
    /\ fs[PL] = Link(PE)

\* this step is the iteration of reverse replay that handles a file_delete
\* entry carrying an original
HandlesDelete ==
    /\ Handles
    /\ NextEntry.op = OpFileDelete
    /\ NextEntry.original.present

\* C31 (reverse replay of file_delete): when something is at the path the
\* entry is labelled 'skip (exists)' and the tree and the backup store are
\* left as they are; when the path is absent and the backup exists, a replay
\* that is no dry run makes the path a regular file with the backup's
\* content and original.mode and labels the entry 'restored'.
C31_ReplayFileDelete ==
    [][ HandlesDelete
        => /\ ~IsErr(Lstat(fs, NextEntry.path))
              => /\ LastAction(replay') = "skip (exists)"
                 /\ replay'.result.Skipped = replay.result.Skipped + 1
                 /\ fs' = fs
                 /\ backups' = backups
           /\ ( /\ IsNotExist(Lstat(fs, NextEntry.path))
                /\ NextEntry.original.backup_path # NoBackupPath
                /\ backups[NextEntry.original.backup_path] # 0
                /\ ~replay.opts.DryRun )
              => /\ LastAction(replay') = "restored"
                 /\ Lstat(fs', NextEntry.path).kind = "file"
                 /\ Lstat(fs', NextEntry.path).content
                      = backups[NextEntry.original.backup_path]
                 /\ Lstat(fs', NextEntry.path).mode = NextEntry.original.mode ]_vars

\* a replay has just restored a deleted file of mode 0600 from its backup
C31_Witness ==
    /\ pc \in ReplayPcs
    /\ replay.result.log # <<>>
    /\ replay.entries[LastIdx(replay)].op = OpFileDelete
    /\ LastAction(replay) = "restored"
    /\ replay.start.fs[replay.entries[LastIdx(replay)].path].kind = "none"
    /\ fs[replay.entries[LastIdx(replay)].path].kind = "file"
    /\ fs[replay.entries[LastIdx(replay)].path].mode = 384

\* this step is the iteration of a reverse replay (no dry run) that handles
\* a file_create entry whose path holds a regular file
HandlesCreatedFile ==
    /\ Handles
    /\ ~replay.opts.DryRun
    /\ NextEntry.op = OpFileCreate
    /\ Lstat(fs, NextEntry.path).kind = "file"

\* C32 (checksum dual mode): a file_create entry without checksum is undone
\* unconditionally: the regular file at its path is deleted whatever its
\* content and whatever force is, and the path is not added to
\* modified_files; an entry with a checksum is undone exactly when the
\* content still hashes to it or force is set.
C32_ChecksumDualMode ==
    [][ HandlesCreatedFile
        => IF NextEntry.checksum = EmptyChecksum
           THEN /\ IsNotExist(Lstat(fs', NextEntry.path))
                /\ LastAction(replay') = "deleted"
                /\ replay'.result.ModifiedFiles = replay.result.ModifiedFiles
                /\ replay'.result.Processed = replay.result.Processed + 1
           ELSE IsNotExist(Lstat(fs', NextEntry.path))
                <=> \/ HashOf(Lstat(fs, NextEntry.path).content) = NextEntry.checksum
                    \/ replay.opts.Force ]_vars

\* entry i of the replayed ledger restores from a backup file that another
\* entry of the ledger names too
SharesBackup(i) ==
    /\ replay.entries[i].op \in {OpFileOverwrite, OpFileDelete}
    /\ HasBackupPath(replay.entries[i])
    /\ \E j \in 1..Len(replay.entries) :
          /\ j # i
          /\ replay.entries[j].op \in {OpFileOverwrite, OpFileDelete}
          /\ HasBackupPath(replay.entries[j])
          /\ replay.entries[j].original.backup_path
               = replay.entries[i].original.backup_path

\* C33 (shared backup under replay): after the remove of an undrifted install
\* with keep_backups=false, every path whose entry shares its backup file
\* with another entry of the ledger is a regular file holding the original
\* content.
C33_SharedBackup ==
    (Uninstalled /\ ~replay.opts.DryRun /\ ~replay.opts.KeepBackups)
    => \A i \in 1..Len(replay.entries) :
          SharesBackup(i)
          => /\ Lstat(fs, replay.entries[i].path).kind = "file"
             /\ HashOf(Lstat(fs, replay.entries[i].path).content)
                  = replay.entries[i].original.checksum

\* this step is an iteration of reverse replay that added its entry to errors
HandlesWithError ==
    /\ Handles
    /\ Len(replay'.result.Errors) = Len(replay.result.Errors) + 1

\* C34 (no data loss on a failed restore): an iteration that reports a
\* file_overwrite entry in errors leaves what was at the entry's path as it
\* was, and an iteration that reports any entry in errors does not leave
\* the entry's path absent when something was there.
C34_FailedRestoreKeepsFile ==
    [][ HandlesWithError
        => /\ NextEntry.op = OpFileOverwrite
              => Lstat(fs', NextEntry.path) = Lstat(fs, NextEntry.path)
           /\ ~IsErr(Lstat(fs, NextEntry.path))
              => ~IsErr(Lstat(fs', NextEntry.path)) ]_vars

\* the install replaced or removed the file or symlink that was at p, the
\* destination of one of its recorded steps
Displaced(p) ==
    /\ preInstall[p].kind \in {"file", "link"}
    /\ postInstall[p] # preInstall[p]
    /\ ~Unrecorded(p)

\* C35 (displaced objects are restorable): after an install and an undrifted
\* remove, every path whose pre-install file or symlink an install step
\* replaced holds its pre-install object again.
C35_DisplacedRestored ==
    (Uninstalled /\ ~replay.opts.DryRun)
    => \A p \in Paths :
          Displaced(p)
          => /\ fs[p].kind = preInstall[p].kind
             /\ fs[p].content = preInstall[p].content
             /\ fs[p].target = preInstall[p].target

\* this step is an iteration of the remove command's reverse replay over the
\* tree the install left
HandlesUndrifted ==
    /\ Handles
    /\ pc = "remove"
    /\ NoDrift

\* C36 (every recorded entry is replayable): an iteration of reverse replay
\* over an undrifted tree adds no ReplayError, whatever entry the Recorder
\* wrote, an entry whose displaced original was a symlink included.
C36_RecordedReplayable ==
    [][ HandlesUndrifted
        => replay'.result.Errors = replay.result.Errors ]_vars

\* the object at p before the step is still there after it, with its
\* content, its target and its mode
Kept(p) ==
    /\ fs'[p].kind = fs[p].kind
    /\ fs'[p].content = fs[p].content
    /\ fs'[p].target = fs[p].target
    /\ fs'[p].mode = fs[p].mode

\* C37 (replay frame): under every option combination an iteration of
\* reverse replay removes or rewrites nothing but the path of the entry it
\* handles and the backup file that entry's original names; every other
\* file, directory and symlink of the tree and every other backup is kept.
C37_ReplayFrame ==
    [][ Handles
        => /\ \A p \in DOMAIN fs :
                 (p # NextEntry.path /\ fs[p].kind # "none") => Kept(p)
           /\ \A b \in DOMAIN backups :
                 backups'[b] # backups[b]
                 => /\ HasBackupPath(NextEntry)
                    /\ b = NextEntry.original.backup_path ]_vars

\* a forced replay over a drifted tree has removed a directory and a file
\* or restored a backup, and the files it did not record are still there
C37_Witness ==
    /\ pc \in ReplayPcs
    /\ ReplayReturned
    /\ replay.result.Processed >= 1
    /\ fs # replay.start.fs
    /\ backups # replay.start.backups
    /\ \E p \in DOMAIN fs : Unrecorded(p) /\ fs[p].kind \in {"file", "link"}

\* C38 (mkdir postcondition): when a mkdir step returns success its path is
\* a directory; a path occupied by a regular file gives no success.
C38_MkdirPostcondition ==
    [][ \A step \in {s \in InstallSteps : s.Type = StepMkdir} :
          StepSucceeded(step) => Stat(fs', step.Path).kind = "dir" ]_vars

\* the entries a result accounts for
Accounted(r) == r.result.Processed + r.result.Skipped + Len(r.result.Errors)

\* what is read at the entry's path is not what the entry recorded: the
\* content hashes to another checksum, or the link has another target
ReadsChanged(tree, e) ==
    \/ /\ e.op \in {OpFileCreate, OpFileOverwrite}
       /\ e.checksum # EmptyChecksum
       /\ Checksum(tree, e.path).err = "nil"
       /\ Checksum(tree, e.path).sum # e.checksum
    \/ /\ e.op = OpSymlinkCreate
       /\ e.target # <<>>
       /\ Lstat(tree, e.path).kind = "link"
       /\ Lstat(tree, e.path).target # e.target

\* this iteration put its entry's path on modified_files
ReportsModified ==
    /\ Handles
    /\ replay'.result.ModifiedFiles # replay.result.ModifiedFiles

HandleLines == [i \in 1..Len(ledg.entries) |-> Marshal(ledg.entries[i])]

\* C40 (ledger handle consistency): after any calls of Create, Append, Open,
\* Record, Close and Delete the entries the handle holds in memory are the
\* entry lines of its file, line by line; a Record that succeeds appends the
\* entry to memory and its line to the file in one call; a Record on a
\* handle that is not open for writing returns an error and changes neither
\* the in-memory list nor the file.
C40_HandleConsistency ==
    /\ []( (ledg.pkg # "" /\ Exists(ledgerFile, ledg.pkg))
           => /\ ledgerFile[ledg.pkg].lines = HandleLines
              /\ UnmarshalAll(ledgerFile[ledg.pkg].lines) = ledg.entries )
    /\ [][ \A e \in RecordInputs, via \in {"create", "append"} :
             LedgerRecord(e, via)
             => /\ ledg'.entries = Append(ledg.entries, e)
                /\ ledgerFile'[ledg.pkg].lines
                     = Append(ledgerFile[ledg.pkg].lines, Marshal(e)) ]_vars
    /\ [][ \A e \in RecordInputs :
             LedgerRecordClosed(e)
             => /\ ret'.err # "nil"
                /\ ledg' = ledg
                /\ ledgerFile' = ledgerFile ]_vars

\* Record has just been refused on a handle that was closed after two
\* entries were recorded through it, and the file holds their two lines
C40_Witness ==
    /\ pc = "idle"
    /\ ret.op = "record"
    /\ ret.err # "nil"
    /\ Len(ledg.entries) = 2
    /\ Exists(ledgerFile, ledg.pkg)
    /\ Len(ledgerFile[ledg.pkg].lines) = 2

====
